---- MODULE Spec2Model ----
(***************************************************************************)
(* Model of the PC/SC OATH client of vivokey_codes.py: class pcsc_oath     *)
(* (set_readers_regex, set_oath_pwd, _send_apdu, _tlv, _untlv, get_codes)  *)
(* and the worker loop pcsc_codes_reader that drives it.                   *)
(*                                                                         *)
(* Bytes are integers 0..255, byte strings and text are sequences of       *)
(* them (text as ASCII codes).  Python's None is the empty sequence for    *)
(* errmsg (a message is a non-empty tuple of strings, its format           *)
(* arguments dropped except where they tell two messages apart) and for    *)
(* the reader name, 0 for the handles hcontext and hcard (the code tests   *)
(* hcontext by truth value), and the string "None" for the critical flag.  *)
(***************************************************************************)
EXTENDS Integers, Sequences, FiniteSets, TLC

(***************************************************************************)
(* Bounds of the model                                                     *)
(***************************************************************************)
\* number of get_codes() transactions the worker runs
MaxTxn == 2
\* number of GET RESPONSE REMAINING commands one _send_apdu call may issue
MaxChunks == 2
\* number of [tag, value] pairs encoded into one buffer
MaxTlvs == 2
\* length of the buffers given to _untlv byte by byte
MaxRaw == 5
\* number of GET commands the authenticator issues
MaxGet == 3
\* number of times the user changes a configuration entry
MaxCfg == 1

(***************************************************************************)
(* Defines of class pcsc_oath                                              *)
(***************************************************************************)
DEFAULT_PERIOD == 30

INS_SELECT == 164
P1_SELECT == 4
P2_SELECT == 0
INS_VALIDATE == 163
INS_CALCULATE_ALL == 164
P2_CALCULATE_TRUNCATED == 1
INS_SEND_REMAINING == 165

SW1_OK == 144
SW2_OK == 0
SW1_NOT_ALLOWED == 105
SW2_AUTH_REQUIRED == 130
SW2_AUTH_FAILED == 132
SW1_WRONG_PARAMS == 106
SW2_WRONG_SYNTAX == 128
SW2_NOT_FOUND == 130
SW1_MORE_DATA == 97

NAME_TAG == 113
CHALLENGE_TAG == 116
RESPONSE_TAG == 117
TRUNCATED_TAG == 118

\* "23456789BCDFGHJKMNPQRTVWXY" as ASCII codes
STEAM_CODE_CHARSET ==
  <<50, 51, 52, 53, 54, 55, 56, 57, 66, 67, 68, 70, 71,
    72, 74, 75, 77, 78, 80, 81, 82, 84, 86, 87, 88, 89>>

steam_code_charset_len == Len(STEAM_CODE_CHARSET)

\* sc.SCARD_S_SUCCESS, and one failure return code of the PC/SC calls
SCARD_S_SUCCESS == 0
SCARD_F_ERROR == 1

(***************************************************************************)
(* Python values                                                           *)
(***************************************************************************)
None == <<>>
PyNone == "None"
PyTrue == "True"
PyFalse == "False"

Take(s, n) == SubSeq(s, 1, IF n > Len(s) THEN Len(s) ELSE n)
Drop(s, n) == SubSeq(s, n + 1, Len(s))
\* s[-2:] of a sequence of at least two elements
Last2(s) == SubSeq(s, Len(s) - 1, Len(s))
\* s[:-2]
ButLast2(s) == SubSeq(s, 1, Len(s) - 2)

RECURSIVE Pow(_, _)
Pow(b, e) == IF e = 0 THEN 1 ELSE b * Pow(b, e - 1)

(***************************************************************************)
(* _tlv and _untlv                                                         *)
(***************************************************************************)
\* _tlv with the one-byte length used up to 255 bytes.
TlvShortUpTo255(tag, data) ==
  LET l == Len(data)
  IN <<tag>> \o (IF l <= 255 THEN <<l>> ELSE <<255, l \div 256, l % 256>>) \o data

\* _tlv(tag, data)
Tlv(tag, data) ==
  LET l == Len(data)
  IN <<tag>> \o (IF l < 255 THEN <<l>> ELSE <<255, l \div 256, l % 256>>) \o data

\* The while loop of _untlv: st = [data, ld, errmsg] at the loop's head.
RECURSIVE UntlvLoop(_)
UntlvLoop(st) ==
  IF st.data = <<>> \/ st.errmsg # None THEN st
  ELSE IF Len(st.data) < 2 \/ (st.data[2] = 255 /\ Len(st.data) < 4)
    THEN [st EXCEPT !.errmsg = <<"TLV too short in APDU response">>]
  ELSE
    LET t == st.data[1]
        ext == st.data[2] = 255
        l == IF ext THEN st.data[3] * 256 + st.data[4] ELSE st.data[2]
        data1 == IF ext THEN Drop(st.data, 4) ELSE Drop(st.data, 2)
        v == Take(data1, IF l <= Len(data1) THEN l ELSE Len(data1))
    IN IF Len(v) < l
         THEN [st EXCEPT !.errmsg = <<"TLV value too short in APDU response">>]
         ELSE UntlvLoop([data |-> Drop(data1, l),
                         ld |-> Append(st.ld, <<t, v>>),
                         errmsg |-> None])

\* The dictionary a list of [tag, value] builds by ld[t] = v, in order.
TlvDict(ld) ==
  [t \in {ld[k][1] : k \in 1..Len(ld)} |->
     LET last == CHOOSE k \in 1..Len(ld) :
                   /\ ld[k][1] = t
                   /\ \A j \in (k + 1)..Len(ld) : ld[j][1] # t
     IN ld[last][2]]

\* _untlv returning what it has decoded so far along with the error.
UntlvPartial(data, do_dict) ==
  LET st == UntlvLoop([data |-> data, ld |-> <<>>, errmsg |-> None])
  IN [errmsg |-> st.errmsg, ld |-> IF do_dict THEN TlvDict(st.ld) ELSE st.ld]

\* _untlv(data, do_dict): (errmsg, None) or (None, list or dict)
Untlv(data, do_dict) ==
  LET st == UntlvLoop([data |-> data, ld |-> <<>>, errmsg |-> None])
  IN IF st.errmsg # None
       THEN [errmsg |-> st.errmsg, ld |-> None]
       ELSE [errmsg |-> None, ld |-> IF do_dict THEN TlvDict(st.ld) ELSE st.ld]

(***************************************************************************)
(* Text helpers                                                            *)
(***************************************************************************)
\* str.upper() on one ASCII character
UpperChar(c) == IF c >= 97 /\ c <= 122 THEN c - 32 ELSE c

Upper(s) == [k \in 1..Len(s) |-> UpperChar(s[k])]

\* whether sub occurs in s
Contains(s, sub) ==
  \E k \in 0..(Len(s) - Len(sub)) : SubSeq(s, k + 1, k + Len(sub)) = sub

RECURSIVE Sum(_)
Sum(s) == IF s = <<>> THEN 0 ELSE Head(s) + Sum(Tail(s))

(***************************************************************************)
(* Library functions the client calls.  The digests are stand-ins: short   *)
(* byte strings that are functions of the same arguments.                  *)
(***************************************************************************)
\* hashlib.pbkdf2_hmac("sha1", pwd, salt, 1000, 16)
Pbkdf2(pwd, salt) ==
  <<(31 * Sum(pwd) + 17 * Sum(salt) + 1000) % 256, (Sum(pwd) + Len(salt) + 16) % 256>>

\* hmac.new(k, msg, "sha1").digest()
Hmac(k, msg) ==
  <<(7 * Sum(k) + 13 * Sum(msg) + Len(msg)) % 256, (Sum(k) + 3 * Sum(msg) + 1) % 256>>

\* str.encode("ascii") succeeds
IsAscii(s) == \A k \in 1..Len(s) : s[k] < 128

(***************************************************************************)
(* The name and code records of a CALCULATE_ALL response                   *)
(***************************************************************************)
\* \s and [0-9] of the re module on ASCII text
IsSpace(c) == c \in (9..13) \cup (28..32)
IsDigit(c) == c >= 48 /\ c <= 57

\* [^:]*\S\s*$ on the text R: the position of the last character that is not
\* white space, provided no colon comes before it; 0 if there is no match.
TailMatch(R) ==
  LET ns == {k \in 1..Len(R) : ~IsSpace(R[k])}
  IN IF ns = {} THEN 0
     ELSE LET k == CHOOSE k \in ns : \A j \in ns : j <= k
          IN IF \E j \in 1..(k - 1) : R[j] = 58 THEN 0 ELSE k

\* re.findall(r"^((.*):)?([^:]*\S)\s*$", v): no match, or the groups 2 and 3
\* of the one match. Group 2 is the longest text without a newline that a
\* colon follows and after which the rest matches; it is empty when the match
\* needs the optional group left out.
FindName(v) ==
  LET cut == {j \in 1..Len(v) :
                /\ v[j] = 58
                /\ \A k \in 1..(j - 1) : v[k] # 10
                /\ TailMatch(Drop(v, j)) > 0}
  IN IF cut # {}
       THEN LET j == CHOOSE j \in cut : \A k \in cut : k <= j
            IN [ok |-> TRUE, g2 |-> Take(v, j - 1),
                g3 |-> Take(Drop(v, j), TailMatch(Drop(v, j)))]
     ELSE IF TailMatch(v) > 0
       THEN [ok |-> TRUE, g2 |-> <<>>, g3 |-> Take(v, TailMatch(v))]
     ELSE [ok |-> FALSE, g2 |-> <<>>, g3 |-> <<>>]

\* int() of a text of decimal digits
RECURSIVE DigitsToInt(_)
DigitsToInt(s) ==
  IF s = <<>> THEN 0 ELSE 10 * DigitsToInt(Take(s, Len(s) - 1)) + (s[Len(s)] - 48)

\* re.match("^([0-9]+)/(.*)$", account): the number of leading digits when a
\* slash follows them, 0 if there is no match.
PeriodPrefix(account) ==
  LET nd == {k \in 0..Len(account) : \A j \in 1..k : IsDigit(account[j])}
      k == CHOOSE k \in nd : \A j \in nd : j <= k
  IN IF k > 0 /\ k < Len(account) /\ account[k + 1] = 47
         /\ \A j \in (k + 2)..Len(account) : account[j] # 10
       THEN k ELSE 0

\* The decoding of a NAME value received while `per` is queried: no match, or
\* the pair name = (account, issuer) in the variable names of the code (the
\* text before the colon is in `account`) and the period of the account.
DecodeName(v, default_period) ==
  LET m == FindName(v)
      k == PeriodPrefix(m.g2)
  IN IF ~m.ok THEN [ok |-> FALSE, name |-> <<>>, account_period |-> 0]
     ELSE IF k > 0
       THEN [ok |-> TRUE, name |-> <<Drop(m.g2, k + 1), m.g3>>,
             account_period |-> DigitsToInt(Take(m.g2, k))]
     ELSE [ok |-> TRUE, name |-> <<m.g2, m.g3>>, account_period |-> default_period]

\* str(x).rjust(w, "0") for x >= 0
RECURSIVE Str(_)
Str(x) == IF x < 10 THEN <<48 + x>> ELSE Str(x \div 10) \o <<48 + (x % 10)>>

RECURSIVE Rjust(_, _)
Rjust(s, w) == IF Len(s) >= w THEN s ELSE Rjust(<<48>> \o s, w)

\* the byte k places from the end of b (0 for the last), 0 beyond its start
ByteFromEnd(b, k) == IF k < Len(b) THEN b[Len(b) - k] ELSE 0

\* n = int.from_bytes(v[1:], "big") & 0x7fffffff: the low 31 bits of the
\* payload, computed from its last four bytes so that no intermediate value
\* exceeds 2^31 - 1
MaskedInt(v) ==
  LET b == Tail(v)
  IN (ByteFromEnd(b, 3) % 128) * 16777216 + ByteFromEnd(b, 2) * 65536
       + ByteFromEnd(b, 1) * 256 + ByteFromEnd(b, 0)

\* DecimalCode without the modulo.
DecimalCodeNoModulo(n, digits) == Rjust(Str(n), digits)

\* code = str(n % 10 ** v[0]).rjust(v[0], "0"), for n < 2^31 (so that
\* n % 10 ** 10 = n)
DecimalCode(n, digits) ==
  Rjust(Str(IF digits >= 10 THEN n ELSE n % Pow(10, digits)), digits)

\* the loop `for _ in range(5)` that builds stcode
RECURSIVE SteamLoop(_, _, _)
SteamLoop(n, stcode, k) ==
  IF k = 0 THEN stcode
  ELSE SteamLoop(n \div steam_code_charset_len,
                 Append(stcode, STEAM_CODE_CHARSET[(n % steam_code_charset_len) + 1]),
                 k - 1)

SteamCode(n) == SteamLoop(n, <<>>, 5)

\* "Steam"
Steam == <<83, 116, 101, 97, 109>>

\* a < b for texts, as Python compares str
RECURSIVE StrLess(_, _)
StrLess(a, b) ==
  IF b = <<>> THEN FALSE
  ELSE IF a = <<>> THEN TRUE
  ELSE IF Head(a) # Head(b) THEN Head(a) < Head(b)
  ELSE StrLess(Tail(a), Tail(b))

\* the sort key (e[0] + e[1]).upper()
SortKey(e) == Upper(e[1] \o e[2])

\* sorted(codes, key = ...): stable, by insertion of each entry after the
\* entries whose key is not greater
RECURSIVE Sorted(_)
Sorted(codes) ==
  IF codes = <<>> THEN <<>>
  ELSE LET init == Sorted(Take(codes, Len(codes) - 1))
           e == codes[Len(codes)]
           keep == {k \in 0..Len(init) :
                      \A j \in 1..k : ~StrLess(SortKey(e), SortKey(init[j]))}
           k == CHOOSE k \in keep : \A j \in keep : j <= k
       IN Take(init, k) \o <<e>> \o Drop(init, k)

\* time() returns a float: the model counts the time in ticks of half a
\* second, so that a time can have a fraction of a second
TicksPerSecond == 2

\* int(now // period), now in ticks and period in seconds
FloorDiv(now, period) == (now \div TicksPerSecond) \div period

\* IntSeconds rounding up instead of truncating.
IntSecondsCeil(ticks) == (ticks + TicksPerSecond - 1) \div TicksPerSecond

\* int(x) for a span of time x >= 0 held in ticks: the whole seconds in it
IntSeconds(ticks) == ticks \div TicksPerSecond

\* pack(">q", x) for 0 <= x < 2^63
RECURSIVE PackBE(_, _)
PackBE(x, nbytes) ==
  IF nbytes = 0 THEN <<>> ELSE PackBE(x \div 256, nbytes - 1) \o <<x % 256>>

(***************************************************************************)
(* The state                                                               *)
(***************************************************************************)
VARIABLES
  \* fields of the pcsc_oath object
  readers_regex, oath_pwd, all_readers, hcontext, reader,
  \* position in and locals of get_codes
  pc, hcard, errmsg, errcritical, oath_codes, disconnect_card, release_ctx,
  aidx, key, challenge, periods_to_request, periods_requested, period, now, i,
  \* the _send_apdu call in progress or just returned, and the id of its caller
  apdu, ret,
  \* the PC/SC resource manager: the contexts established and not released,
  \* and the card connections made (with their context) and not disconnected
  liveCtx, openCards,
  \* history of the transaction: its PC/SC calls in order, what _send_apdu
  \* returned for each command, hcontext at its start, and the number of
  \* transactions started
  log, answers, hcontext0, ntxn,
  \* the queues between the authenticator and the worker process, the argument
  \* of the GET the worker is handling, and every command put on cmd_q so far
  cmd_q, codes_q, getarg, sent,
  \* fields of the authenticator window
  activated, bg_read_enabled, stop_timeout_func, codes_msg_counter,
  current_list_data, statusbar_messages, last_errmsg_clear_tstamp,
  \* the messages on the stack of the Gtk.Statusbar (context 0), the one
  \* displayed last, and what the last call of set_statusbar returned
  statusbar, msg_at_lvl_changed,
  \* the GLib main loop: the number of timeout_func timers scheduled, and
  \* whether a timeout_func call has reached its read of codes_q
  timers, gui_pc,
  \* a use of _tlv and _untlv on their own: the [tag, value] pairs, the
  \* buffer, what _untlv returned for it, and how far the use has got
  tlvs_in, tlv_data, untlv_ret, tlv_pc

objVars == <<readers_regex, oath_pwd, all_readers, hcontext, reader>>
locVars == <<hcard, errmsg, errcritical, oath_codes, disconnect_card, release_ctx,
             aidx, key, challenge, periods_to_request, periods_requested, period,
             now, i>>
apduVars == <<apdu, ret>>
envVars == <<liveCtx, openCards>>
histVars == <<log, answers, hcontext0, ntxn>>

qVars == <<cmd_q, codes_q, getarg, sent>>
guiVars == <<activated, bg_read_enabled, stop_timeout_func, codes_msg_counter,
             current_list_data, statusbar_messages, last_errmsg_clear_tstamp,
             statusbar, msg_at_lvl_changed, timers, gui_pc>>
tlvVars == <<tlvs_in, tlv_data, untlv_ret, tlv_pc>>

\* the variables of the worker's pcsc_oath object and of its get_codes call
pcscVars == <<objVars, pc, locVars, apduVars, envVars, histVars>>

vars == <<pcscVars, qVars, guiVars, tlvVars>>

\* oath_aids: DEFAULT_OATH_AIDS, as byte strings
oath_aids ==
  << <<160, 0, 0, 7, 71, 0, 97, 252, 84, 213>>,
     <<160, 0, 0, 5, 39, 33, 1>> >>

\* self.default_period
default_period == DEFAULT_PERIOD

\* default_reader = "0"
default_reader == <<48>>

\* "^.*{}.*$".format(reader)
ReadersRegex(rdr) == <<94, 46, 42>> \o rdr \o <<46, 42, 36>>

\* An entry of the history: a PC/SC call or a command sent, its argument, how
\* the call ended ("exc": it raised, "fail": a failure return code, "ok"),
\* the bytes transmitted and what the call returned (the reader list, the
\* response bytes).
Call(op, arg, out) ==
  [op |-> op, arg |-> arg, out |-> out, cmd |-> <<>>, resp |-> <<>>]

\* how one SCardTransmit ended
TxOut(o) == IF o.exc THEN "exc" ELSE IF o.r # SCARD_S_SUCCESS THEN "fail" ELSE "ok"

\* An entry of the history for a command APDU: the bytes cmd are transmitted
\* and the transmission ends as that of o.
Sent(op, arg, o, cmd) ==
  [op |-> op, arg |-> arg, out |-> TxOut(o), cmd |-> cmd, resp |-> o.data]

\* the command APDUs of get_codes and _send_apdu
SelectApdu(aid) == <<0, INS_SELECT, P1_SELECT, P2_SELECT, Len(aid)>> \o aid
ValidateApdu(data_tlv) == <<0, INS_VALIDATE, 0, 0, Len(data_tlv)>> \o data_tlv
CalculateAllApdu(challenge_tlv) ==
  <<0, INS_CALCULATE_ALL, 0, P2_CALCULATE_TRUNCATED, Len(challenge_tlv)>> \o challenge_tlv
SendRemainingApdu == <<0, INS_SEND_REMAINING, 0, 0>>

\* r when _send_apdu returns None for it
NoR == -1

NoApdu == [errmsg |-> None, ec |-> PyNone, r |-> NoR, response |-> <<>>, n |-> 0]

\* One SCardTransmit: it raises, or returns the code r and the bytes data.
TxExc == [exc |-> TRUE, r |-> NoR, data |-> <<>>]
TxOk(data) == [exc |-> FALSE, r |-> SCARD_S_SUCCESS, data |-> data]
TxFail(data) == [exc |-> FALSE, r |-> SCARD_F_ERROR, data |-> data]

SwOk == <<SW1_OK, SW2_OK>>

(***************************************************************************)
(* What the environment can answer                                         *)
(***************************************************************************)
\* the reader lists SCardListReaders can return: names "A0", "b1"
ReaderLists == { <<>>, << <<65, 48>> >>, << <<98, 49>>, <<65, 48>> >> }

\* arguments of SETRDR: "", "B" and "(" (not a regular expression)
ReaderArgs == { <<>>, <<66>>, <<40>> }

\* arguments of SETPWD: none, "p", and a password with a non-ASCII character
PwdArgs == { <<>>, <<112>>, <<233>> }

\* the salt and the challenge of the applet, and the challenges randint makes
CardSalt == <<1, 2>>
CardChallenge == <<3, 4>>
OurChallenges == { <<5, 6, 7, 8, 9, 10, 11, 12>>, <<0, 0, 0, 0, 0, 0, 0, 1>> }

\* NAME values "A:a", "60/B:b", "Steam:s", "0/Z:z", "b", "  ", "60/b",
\* "A:60/a" and "steam:a", and CODE values of 6, 8, 5 and 10 digits
NameAa == <<65, 58, 97>>
Name60Bb == <<54, 48, 47, 66, 58, 98>>
NameSteam == Steam \o <<58, 115>>
NameZero == <<48, 47, 90, 58, 122>>
NameB == <<98>>
NameBlank == <<32, 32>>
Name60b == <<54, 48, 47, 98>>
NameA60a == <<65, 58, 54, 48, 47, 97>>
NameSteamLower == <<115, 116, 101, 97, 109, 58, 97>>
Code6 == <<6, 0, 1, 226, 64>>
Code8 == <<8, 255, 255, 255, 255>>
Code5 == <<5, 0, 0, 0, 1>>
Code10 == <<10, 255, 255, 255, 255>>

\* the values time() returns, in ticks: 59.5 s and 60.0 s
Times == {119, 120}

\* answers to CALCULATE_ALL
CalcReplies ==
  { TxExc,
    TxFail(SwOk),
    TxOk(<<SW1_OK>>),
    TxOk(<<SW1_NOT_ALLOWED, SW2_AUTH_REQUIRED>>),
    TxOk(<<111, 0>>),
    TxOk(SwOk),
    TxOk(Tlv(NAME_TAG, NameAa) \o Tlv(TRUNCATED_TAG, Code6) \o SwOk),
    TxOk(Tlv(NAME_TAG, Name60Bb) \o Tlv(TRUNCATED_TAG, Code8)
           \o Tlv(NAME_TAG, NameSteam) \o Tlv(TRUNCATED_TAG, Code6) \o SwOk),
    TxOk(Tlv(TRUNCATED_TAG, Code6) \o SwOk),
    TxOk(Tlv(NAME_TAG, Name60Bb) \o SwOk),
    TxOk(Tlv(NAME_TAG, Name60Bb) \o Tlv(TRUNCATED_TAG, Code5) \o SwOk),
    TxOk(Tlv(NAME_TAG, NameSteam) \o Tlv(TRUNCATED_TAG, Code8)
           \o Tlv(NAME_TAG, NameSteamLower) \o Tlv(TRUNCATED_TAG, Code10) \o SwOk),
    TxOk(Tlv(NAME_TAG, Name60b) \o Tlv(TRUNCATED_TAG, Code6)
           \o Tlv(NAME_TAG, NameA60a) \o Tlv(TRUNCATED_TAG, Code6) \o SwOk),
    TxOk(Tlv(NAME_TAG, NameSteam) \o Tlv(TRUNCATED_TAG, Code8)
           \o Tlv(NAME_TAG, NameSteamLower) \o Tlv(TRUNCATED_TAG, Code10)
           \o Tlv(NAME_TAG, NameB) \o SwOk),
    TxOk(Tlv(NAME_TAG, NameAa) \o Tlv(TRUNCATED_TAG, Code6)
           \o Tlv(NAME_TAG, NameBlank) \o SwOk),
    TxOk(Tlv(NAME_TAG, NameAa) \o Tlv(TRUNCATED_TAG, Code5) \o SwOk),
    TxOk(Tlv(NAME_TAG, NameAa) \o Tlv(TRUNCATED_TAG, <<>>) \o SwOk),
    TxOk(Tlv(NAME_TAG, NameZero) \o Tlv(TRUNCATED_TAG, Code6) \o SwOk),
    TxOk(Tlv(NAME_TAG, <<200>>) \o SwOk),
    TxOk(<<NAME_TAG, 5, 1>> \o SwOk),
    TxOk(Tlv(NAME_TAG, NameAa) \o <<SW1_MORE_DATA, 7>>) }

\* answers to SELECT: the first SCardTransmit of _send_apdu
SelectReplies ==
  { TxExc,
    TxFail(SwOk),
    TxOk(<<SW1_OK>>),
    TxOk(<<SW1_WRONG_PARAMS, SW2_NOT_FOUND>>),
    TxOk(<<111, 0>>),
    TxOk(Tlv(NAME_TAG, CardSalt) \o SwOk),
    TxOk(Tlv(NAME_TAG, CardSalt) \o Tlv(CHALLENGE_TAG, CardChallenge) \o SwOk),
    TxOk(Tlv(CHALLENGE_TAG, CardChallenge) \o SwOk),
    TxOk(<<NAME_TAG, 5, 1>> \o SwOk),
    TxOk(Tlv(NAME_TAG, CardSalt) \o <<SW1_MORE_DATA, 6>>) }

\* answers to GET RESPONSE REMAINING
RemainingReplies ==
  { TxExc,
    TxOk(<<SW1_OK>>),
    TxOk(SwOk),
    TxOk(<<SW1_MORE_DATA, 0>>),
    TxOk(<<SW1_MORE_DATA, 1>>),
    TxOk(<<CHALLENGE_TAG, 2>> \o <<SW1_MORE_DATA, 2>>),
    TxOk(CardChallenge \o SwOk),
    TxOk(Tlv(TRUNCATED_TAG, Code6) \o SwOk) }

\* answers to VALIDATE, to the challenge ch, when the client's key is k
ValidateReplies(k, ch) ==
  { TxExc,
    TxOk(<<SW1_OK>>),
    TxOk(<<SW1_NOT_ALLOWED, SW2_AUTH_FAILED>>),
    TxOk(<<SW1_WRONG_PARAMS, SW2_WRONG_SYNTAX>>),
    TxOk(<<111, 0>>),
    TxOk(Tlv(RESPONSE_TAG, Hmac(k, ch)) \o SwOk),
    TxOk(Tlv(RESPONSE_TAG, Hmac(<<0>>, ch)) \o SwOk),
    TxOk(Tlv(NAME_TAG, CardSalt) \o SwOk),
    TxOk(<<RESPONSE_TAG, 9>> \o SwOk) }

(***************************************************************************)
(* __init__                                                                *)
(***************************************************************************)
InitLocals ==
  /\ hcard = 0
  /\ errmsg = None
  /\ errcritical = PyTrue
  /\ oath_codes = <<>>
  /\ disconnect_card = FALSE
  /\ release_ctx = FALSE
  /\ aidx = 0
  /\ key = <<>>
  /\ challenge = <<>>
  /\ periods_to_request = <<>>
  /\ periods_requested = <<>>
  /\ period = 0
  /\ now = 0
  /\ i = -1
  /\ apdu = NoApdu
  /\ ret = "none"
  /\ log = <<>>
  /\ answers = <<>>
  /\ hcontext0 = 0

\* No authenticator runs: the queues are empty and its window is as
\* authenticator.__init__ leaves it without a configuration file.
NoGui ==
  /\ cmd_q = <<>>
  /\ codes_q = <<>>
  /\ getarg = 0
  /\ sent = <<>>
  /\ activated = FALSE
  /\ bg_read_enabled = FALSE
  /\ stop_timeout_func = FALSE
  /\ codes_msg_counter = 0
  /\ current_list_data = <<>>
  /\ statusbar_messages = <<PyNone, PyNone, PyNone>>
  /\ statusbar = <<>>
  /\ msg_at_lvl_changed = FALSE
  /\ last_errmsg_clear_tstamp = PyNone
  /\ timers = 0
  /\ gui_pc = "main"

\* what untlv_ret holds before _untlv has run
NotRun == [do_dict |-> FALSE, errmsg |-> None, ld |-> None]

\* _tlv and _untlv are not used on their own.
NoTlv ==
  /\ tlvs_in = <<>>
  /\ tlv_data = <<>>
  /\ untlv_ret = NotRun
  /\ tlv_pc = "off"

\* pcsc_oath.__init__, and the worker waiting for a command
PcscInit ==
  /\ readers_regex = <<94, 46, 42, 36>>
  /\ oath_pwd = <<>>
  /\ all_readers = <<>>
  /\ hcontext = 0
  /\ reader = None
  /\ pc = "idle"
  /\ InitLocals
  /\ liveCtx = {}
  /\ openCards = {}
  /\ ntxn = 0

Init ==
  /\ PcscInit
  /\ NoGui
  /\ NoTlv

(***************************************************************************)
(* pcsc_codes_reader: the commands SETRDR and SETPWD                       *)
(***************************************************************************)
\* set_readers_regex that keeps the reader list last seen, and with it the
\* reader chosen for the earlier pattern.
set_readers_regex_keeps_choice(rdr) ==
  /\ readers_regex' = ReadersRegex(rdr)
  /\ UNCHANGED all_readers

\* set_readers_regex(reader)
set_readers_regex(rdr) ==
  /\ readers_regex' = ReadersRegex(rdr)
  /\ all_readers' = <<>>

SetRdr(arg) ==
  /\ pc = "idle"
  /\ UNCHANGED <<qVars, guiVars, tlvVars>>
  /\ set_readers_regex(IF arg # <<>> THEN arg ELSE default_reader)
  /\ UNCHANGED <<oath_pwd, hcontext, reader, pc, locVars, apduVars, envVars, histVars>>

\* set_oath_pwd(oath_pwd)
SetPwd(arg) ==
  /\ pc = "idle"
  /\ UNCHANGED <<qVars, guiVars, tlvVars>>
  /\ oath_pwd' = arg
  /\ UNCHANGED <<readers_regex, all_readers, hcontext, reader, pc, locVars,
                 apduVars, envVars, histVars>>

(***************************************************************************)
(* get_codes                                                               *)
(***************************************************************************)
\* The handle a PC/SC call gives out: a value that is not a handle in use.
\* Handles are opaque, so the least such number stands for any of them.
FreshHandle ==
  LET used == liveCtx \cup {c.h : c \in openCards} \cup {c.ctx : c \in openCards}
  IN CHOOSE n \in 1..(Cardinality(used) + 1) : n \notin used

\* ContinuePc with the test of self.hcontext lost: the context is always
\* established anew.
ContinuePcAlwaysEstablish(disc, rel, hctx) ==
  IF disc \/ rel THEN "unwind" ELSE "establish"

\* Where `continue` leads: the head of the while True loop, which unwinds if
\* either flag is set and otherwise goes on to the context.
ContinuePc(disc, rel, hctx) ==
  IF disc \/ rel THEN "unwind"
  ELSE IF hctx = 0 THEN "establish" ELSE "list"

\* The command GET: get_codes is entered, its locals are initialised and the
\* while True loop is reached.
Get ==
  /\ pc = "idle"
  /\ UNCHANGED <<qVars, guiVars, tlvVars>>
  /\ ntxn < MaxTxn
  /\ ntxn' = ntxn + 1
  /\ hcontext0' = hcontext
  /\ log' = <<>>
  /\ answers' = <<>>
  /\ pc' = ContinuePc(FALSE, FALSE, hcontext)
  /\ UNCHANGED <<objVars, locVars, apduVars, envVars>>

\* sc.SCardEstablishContext: o is "exc" (raises), "fail" (a failure return
\* code, no context) or "ok".
EstablishContext(o) ==
  /\ pc = "establish"
  /\ UNCHANGED <<qVars, guiVars, tlvVars>>
  /\ log' = Append(log, Call("EstablishContext", 0, o))
  /\ CASE o = "exc" ->
            /\ errmsg' = <<"error getting PC/SC resource manager context">>
            /\ pc' = "ret"
            /\ UNCHANGED <<hcontext, release_ctx, envVars>>
       [] o = "fail" ->
            /\ hcontext' = 0
            /\ release_ctx' = TRUE
            /\ errmsg' = <<"cannot establish PC/SC resource manager context">>
            /\ pc' = ContinuePc(disconnect_card, TRUE, 0)
            /\ UNCHANGED envVars
       [] o = "ok" ->
            /\ hcontext' = FreshHandle
            /\ liveCtx' = liveCtx \cup {FreshHandle}
            /\ pc' = "list"
            /\ UNCHANGED <<errmsg, release_ctx, openCards>>
  /\ UNCHANGED <<readers_regex, oath_pwd, all_readers, reader, hcard, errcritical,
                 oath_codes, disconnect_card, aidx, key, challenge,
                 periods_to_request, periods_requested, period, now, i,
                 apduVars, answers, hcontext0, ntxn>>

\* re.match(self.readers_regex, r, re.I) for the patterns of the model: the
\* text between "^.*" and ".*$" is a literal, or holds "(" and does not
\* compile. "error" stands for the exception re.match raises.
ReMatch(regex, r) ==
  LET lit == SubSeq(regex, 4, Len(regex) - 3)
  IN IF \E k \in 1..Len(lit) : lit[k] = 40 THEN "error"
     ELSE IF Contains(Upper(r), Upper(lit)) THEN "match" ELSE "nomatch"

\* The for/else over self.all_readers inside try/except: the first reader
\* that matches, None if none does or the match raises.
FirstMatch(regex, readers) ==
  LET hits == {k \in 1..Len(readers) : ReMatch(regex, readers[k]) # "nomatch"}
  IN IF hits = {} THEN None
     ELSE LET k == CHOOSE k \in hits : \A j \in hits : k <= j
          IN IF ReMatch(regex, readers[k]) = "error" THEN None ELSE readers[k]

\* sc.SCardListReaders and the choice of the reader: o is "exc", "fail" (a
\* failure return code with an empty list) or "ok" with the list rs.
ListReaders(o, rs) ==
  /\ pc = "list"
  /\ UNCHANGED <<qVars, guiVars, tlvVars>>
  /\ log' = Append(log, [Call("ListReaders", hcontext, o)
                            EXCEPT !.resp = IF o = "ok" THEN rs ELSE <<>>])
  /\ IF o = "exc"
       THEN /\ release_ctx' = TRUE
            /\ errmsg' = <<"error getting the list of readers">>
            /\ pc' = ContinuePc(disconnect_card, TRUE, hcontext)
            /\ UNCHANGED <<all_readers, reader>>
       ELSE LET all_readers_new == IF o = "fail" THEN <<>> ELSE rs
                rescan == all_readers_new # all_readers
                reader1 == IF rescan THEN FirstMatch(readers_regex, all_readers_new)
                           ELSE reader
            IN IF all_readers_new = <<>>
                 THEN /\ all_readers' = <<>>
                      /\ errmsg' = <<"no readers">>
                      /\ pc' = "ret"
                      /\ UNCHANGED <<reader, release_ctx>>
                 ELSE /\ all_readers' = all_readers_new
                      /\ reader' = reader1
                      /\ IF reader1 = None
                           THEN /\ errmsg' = <<"no matching readers">>
                                /\ pc' = "ret"
                                /\ UNCHANGED release_ctx
                           ELSE /\ release_ctx' = TRUE
                                /\ pc' = "connect"
                                /\ UNCHANGED errmsg
  /\ UNCHANGED <<readers_regex, oath_pwd, hcontext, hcard, errcritical, oath_codes,
                 disconnect_card, aidx, key, challenge, periods_to_request,
                 periods_requested, period, now, i, apduVars, envVars,
                 answers, hcontext0, ntxn>>

\* sc.SCardConnect: o is "exc", "fail" (a failure return code: no card) or "ok".
Connect(o) ==
  /\ pc = "connect"
  /\ UNCHANGED <<qVars, guiVars, tlvVars>>
  /\ log' = Append(log, Call("Connect", hcontext, o))
  /\ CASE o = "exc" ->
            /\ errmsg' = <<"error connecting to the smartcard", "exception">>
            /\ pc' = ContinuePc(disconnect_card, release_ctx, hcontext)
            /\ UNCHANGED <<hcard, errcritical, disconnect_card, aidx, envVars>>
       [] o = "fail" ->
            /\ hcard' = 0
            /\ errmsg' = <<"error connecting to the smartcard">>
            /\ errcritical' = PyFalse
            /\ pc' = "ret"
            /\ UNCHANGED <<disconnect_card, aidx, envVars>>
       [] o = "ok" ->
            /\ hcard' = FreshHandle
            /\ openCards' = openCards \cup {[h |-> FreshHandle, ctx |-> hcontext]}
            /\ disconnect_card' = TRUE
            /\ aidx' = 1
            /\ pc' = "select"
            /\ UNCHANGED <<errmsg, errcritical, liveCtx>>
  /\ UNCHANGED <<objVars, oath_codes, release_ctx, key, challenge,
                 periods_to_request, periods_requested, period, now, i,
                 apduVars, answers, hcontext0, ntxn>>

(***************************************************************************)
(* _send_apdu                                                              *)
(***************************************************************************)
\* SendFirst with a short response reported as critical.
SendFirstShortCritical(o) ==
  IF o.exc
    THEN [errmsg |-> <<"exception">>, ec |-> PyTrue, r |-> NoR, response |-> <<>>, n |-> 0]
  ELSE IF Len(o.data) < 2
    THEN [errmsg |-> <<"APDU response too short">>, ec |-> PyTrue, r |-> NoR,
          response |-> <<>>, n |-> 0]
  ELSE [errmsg |-> None, ec |-> PyNone, r |-> o.r, response |-> o.data, n |-> 0]

\* _send_apdu up to the head of its while loop: the first SCardTransmit, o.
SendFirst(o) ==
  IF o.exc
    THEN [errmsg |-> <<"exception">>, ec |-> PyTrue, r |-> NoR, response |-> <<>>, n |-> 0]
  ELSE IF Len(o.data) < 2
    THEN [errmsg |-> <<"APDU response too short">>, ec |-> PyFalse, r |-> NoR,
          response |-> <<>>, n |-> 0]
  ELSE [errmsg |-> None, ec |-> PyNone, r |-> o.r, response |-> o.data, n |-> 0]

\* The count of the turns of the while loop of _send_apdu after one more
\* turn: the turns are counted up to MaxChunks.
Counted(n) == IF n < MaxChunks THEN n + 1 ELSE n

\* SendMore with the status bytes of the earlier chunk left in the middle.
SendMoreKeepStatus(a, o) ==
  IF o.exc
    THEN [errmsg |-> <<"exception">>, ec |-> PyTrue, r |-> NoR, response |-> <<>>,
          n |-> Counted(a.n)]
  ELSE IF Len(o.data) < 2
    THEN [errmsg |-> <<"APDU response too short">>, ec |-> PyFalse, r |-> NoR,
          response |-> <<>>, n |-> Counted(a.n)]
  ELSE [errmsg |-> None, ec |-> PyNone, r |-> o.r,
        response |-> a.response \o o.data, n |-> Counted(a.n)]

\* One turn of the while loop of _send_apdu: SCardTransmit of GET RESPONSE
\* REMAINING answers o.
SendMore(a, o) ==
  IF o.exc
    THEN [errmsg |-> <<"exception">>, ec |-> PyTrue, r |-> NoR, response |-> <<>>,
          n |-> Counted(a.n)]
  ELSE IF Len(o.data) < 2
    THEN [errmsg |-> <<"APDU response too short">>, ec |-> PyFalse, r |-> NoR,
          response |-> <<>>, n |-> Counted(a.n)]
  ELSE [errmsg |-> None, ec |-> PyNone, r |-> o.r,
        response |-> ButLast2(a.response) \o o.data, n |-> Counted(a.n)]

\* The while condition of _send_apdu: response[-2] == SW1_MORE_DATA
MoreData(a) == a.errmsg = None /\ a.response[Len(a.response) - 1] = SW1_MORE_DATA

\* Where get_codes is after a step of _send_apdu called from `caller`.
ApduPc(a, caller) == IF MoreData(a) THEN "more" ELSE caller

\* The while loop of _send_apdu has no bound of its own: the token may ask
\* for a continuation as long as it likes. The chunks that ask for one more
\* carry data before the turn MaxChunks and none from it on (the response
\* keeps its length), and the history keeps the commands whose answer
\* carries data or ends the loop.
SendRemaining(o) ==
  /\ pc = "more"
  /\ UNCHANGED <<qVars, guiVars, tlvVars>>
  /\ MoreData(SendMore(apdu, o)) => (apdu.n + 1 >= MaxChunks <=> Len(o.data) = 2)
  /\ log' = IF Len(o.data) # 2 \/ ~MoreData(SendMore(apdu, o))
              THEN Append(log, Sent("SEND_REMAINING", 0, o, SendRemainingApdu))
            ELSE log
  /\ apdu' = SendMore(apdu, o)
  /\ pc' = ApduPc(apdu', ret)
  /\ UNCHANGED <<objVars, locVars, ret, envVars, answers, hcontext0, ntxn>>

(***************************************************************************)
(* get_codes: the selection of the applet                                  *)
(***************************************************************************)
\* The head of the for loop over self.oath_aids: SELECT is sent for the
\* candidate aidx.
SelectSend(o) ==
  /\ pc = "select"
  /\ UNCHANGED <<qVars, guiVars, tlvVars>>
  /\ aidx <= Len(oath_aids)
  /\ log' = Append(log, Sent("SELECT", aidx, o, SelectApdu(oath_aids[aidx])))
  /\ apdu' = SendFirst(o)
  /\ ret' = "select_ret"
  /\ pc' = ApduPc(apdu', "select_ret")
  /\ UNCHANGED <<objVars, locVars, envVars, answers, hcontext0, ntxn>>

\* SelectStep without the break on OK: the loop goes on to the next candidate.
SelectStepNoBreak(a, crit) ==
  IF a.errmsg # None \/ a.r # SCARD_S_SUCCESS
    THEN [errmsg |-> <<"error transmitting OATH AID selection command">> \o a.errmsg,
          errcritical |-> a.ec, release |-> TRUE, go |-> "abort"]
  ELSE IF Last2(a.response) = SwOk
    THEN [errmsg |-> None, errcritical |-> crit, release |-> FALSE, go |-> "next"]
  ELSE IF Last2(a.response) # <<SW1_WRONG_PARAMS, SW2_NOT_FOUND>>
    THEN [errmsg |-> <<"error from OATH AID selection command">>,
          errcritical |-> PyFalse, release |-> FALSE, go |-> "abort"]
  ELSE [errmsg |-> <<"OATH application not found">>,
        errcritical |-> PyFalse, release |-> FALSE, go |-> "next"]

\* The body of the for loop after _send_apdu returned a: the new errmsg and
\* errcritical, whether release_ctx is set, and how the loop goes on: "accept"
\* (break on OK), "abort" (break on an error) or "next".
SelectStep(a, crit) ==
  IF a.errmsg # None \/ a.r # SCARD_S_SUCCESS
    THEN [errmsg |-> <<"error transmitting OATH AID selection command">> \o a.errmsg,
          errcritical |-> a.ec, release |-> TRUE, go |-> "abort"]
  ELSE IF Last2(a.response) = SwOk
    THEN [errmsg |-> None, errcritical |-> crit, release |-> FALSE, go |-> "accept"]
  ELSE IF Last2(a.response) # <<SW1_WRONG_PARAMS, SW2_NOT_FOUND>>
    THEN [errmsg |-> <<"error from OATH AID selection command">>,
          errcritical |-> PyFalse, release |-> FALSE, go |-> "abort"]
  ELSE [errmsg |-> <<"OATH application not found">>,
        errcritical |-> PyFalse, release |-> FALSE, go |-> "next"]

\* _send_apdu has returned to the for loop: the status of the candidate is
\* examined, and after the loop `if errmsg: continue`.
SelectRet ==
  /\ pc = "select_ret"
  /\ UNCHANGED <<qVars, guiVars, tlvVars>>
  /\ answers' = Append(answers, [cmd |-> "SELECT", arg |-> aidx, a |-> apdu, now |-> now])
  /\ LET st == SelectStep(apdu, errcritical)
         rel == release_ctx \/ st.release
     IN /\ errmsg' = st.errmsg
        /\ errcritical' = st.errcritical
        /\ release_ctx' = rel
        /\ IF st.go = "next" /\ aidx < Len(oath_aids)
             THEN /\ aidx' = aidx + 1
                  /\ pc' = "select"
             ELSE /\ aidx' = aidx
                  /\ pc' = IF st.errmsg # None
                             THEN ContinuePc(disconnect_card, rel, hcontext)
                             ELSE "selected"
  /\ UNCHANGED <<objVars, hcard, oath_codes, disconnect_card, key, challenge,
                 periods_to_request, periods_requested, period, now, i,
                 apduVars, envVars, log, hcontext0, ntxn>>

\* The response of the selected applet is decoded and the password is
\* checked against the presence of a challenge; with a password, VALIDATE is
\* sent with the challenge ch of the client, and answered o.
AfterSelect(o, ch) ==
  /\ pc = "selected"
  /\ UNCHANGED <<qVars, guiVars, tlvVars>>
  /\ LET d == Untlv(ButLast2(apdu.response), TRUE)
         tlvs == d.ld
         bad == IF d.errmsg # None THEN d.errmsg
                ELSE IF NAME_TAG \notin DOMAIN tlvs
                  THEN <<"Malformed APDU response: missing name tag in AID selection command response">>
                ELSE IF oath_pwd # <<>> /\ CHALLENGE_TAG \notin DOMAIN tlvs
                  THEN <<"password set but no password required">>
                ELSE IF oath_pwd = <<>> /\ CHALLENGE_TAG \in DOMAIN tlvs
                  THEN <<"password required">>
                ELSE None
     IN IF bad # None
          THEN /\ errmsg' = bad
               /\ pc' = ContinuePc(disconnect_card, release_ctx, hcontext)
               /\ UNCHANGED <<key, challenge, periods_to_request, periods_requested,
                              apduVars, log>>
        ELSE IF oath_pwd = <<>>
          THEN /\ periods_to_request' = <<DEFAULT_PERIOD>>
               /\ periods_requested' = <<>>
               /\ pc' = "calc"
               /\ UNCHANGED <<errmsg, key, challenge, apduVars, log>>
        ELSE IF ~IsAscii(oath_pwd)
          THEN /\ pc' = "raised"
               /\ UNCHANGED <<errmsg, key, challenge, periods_to_request,
                              periods_requested, apduVars, log>>
        ELSE /\ key' = Pbkdf2(oath_pwd, tlvs[NAME_TAG])
             /\ challenge' = ch
             /\ log' = Append(log, Sent("VALIDATE", 0, o,
                                ValidateApdu(Tlv(RESPONSE_TAG, Hmac(key', tlvs[CHALLENGE_TAG]))
                                               \o Tlv(CHALLENGE_TAG, ch))))
             /\ apdu' = SendFirst(o)
             /\ ret' = "validate_ret"
             /\ pc' = ApduPc(apdu', "validate_ret")
             /\ UNCHANGED <<errmsg, periods_to_request, periods_requested>>
  /\ UNCHANGED <<objVars, hcard, errcritical, oath_codes, disconnect_card,
                 release_ctx, aidx, period, now, i, envVars, answers, hcontext0, ntxn>>

Selected ==
  \E ch \in OurChallenges :
    \E o \in ValidateReplies(Pbkdf2(oath_pwd, CardSalt), ch) : AfterSelect(o, ch)

\* The verification of the applet's response left out.
VerifiedAlways(response, k, ch) == TRUE

\* hmac.compare_digest(response, verification), the verification being the
\* HMAC of our challenge ch under the key k
Verified(response, k, ch) == response = Hmac(k, ch)

\* _send_apdu has returned the answer to VALIDATE.
ValidateRet ==
  /\ pc = "validate_ret"
  /\ UNCHANGED <<qVars, guiVars, tlvVars>>
  /\ answers' = Append(answers, [cmd |-> "VALIDATE", arg |-> 0, a |-> apdu, now |-> now])
  /\ LET d == Untlv(ButLast2(apdu.response), TRUE)
         txerr == apdu.errmsg # None \/ apdu.r # SCARD_S_SUCCESS
         bad == IF txerr
                  THEN <<"error transmitting VALIDATE command">> \o apdu.errmsg
                ELSE IF Last2(apdu.response) # SwOk
                  THEN IF \/ Last2(apdu.response) = <<SW1_NOT_ALLOWED, SW2_AUTH_FAILED>>
                          \/ Last2(apdu.response) = <<SW1_WRONG_PARAMS, SW2_WRONG_SYNTAX>>
                         THEN <<"authentication failed">>
                         ELSE <<"error from VALIDATE selection command">>
                ELSE IF d.errmsg # None THEN d.errmsg
                ELSE IF RESPONSE_TAG \notin DOMAIN d.ld
                  THEN <<"Malformed APDU response: missing response from VALIDATE command response">>
                ELSE IF ~Verified(d.ld[RESPONSE_TAG], key, challenge)
                  THEN <<"response from VALIDATE command does not match verification">>
                ELSE None
         rel == release_ctx \/ txerr
     IN /\ errmsg' = bad
        /\ errcritical' = IF txerr THEN apdu.ec ELSE errcritical
        /\ release_ctx' = rel
        /\ IF bad # None
             THEN /\ pc' = ContinuePc(disconnect_card, rel, hcontext)
                  /\ UNCHANGED <<periods_to_request, periods_requested>>
             ELSE /\ periods_to_request' = <<DEFAULT_PERIOD>>
                  /\ periods_requested' = <<>>
                  /\ pc' = "calc"
  /\ UNCHANGED <<objVars, hcard, oath_codes, disconnect_card, aidx, key, challenge,
                 period, now, i, apduVars, envVars, log, hcontext0, ntxn>>

(***************************************************************************)
(* get_codes: the calculation of the codes                                 *)
(***************************************************************************)
\* The while condition of the loop over the periods.
\* InList with every test answering no.
InListNever(x, l) == FALSE

\* x in l, for a list l
InList(x, l) == \E k \in 1..Len(l) : l[k] = x

PeriodsLeft(to_request, requested) ==
  to_request # <<>> /\ ~InList(Head(to_request), requested)

\* The head of the while loop: the next period is taken, the time t is read
\* and CALCULATE_ALL is sent and answered o. now // period raises
\* ZeroDivisionError when the period is 0.
CalcSend(o, t) ==
  /\ pc = "calc"
  /\ UNCHANGED <<qVars, guiVars, tlvVars>>
  /\ PeriodsLeft(periods_to_request, periods_requested)
  /\ t >= now
  /\ period' = Head(periods_to_request)
  /\ periods_to_request' = Tail(periods_to_request)
  /\ periods_requested' = Append(periods_requested, period')
  /\ now' = t
  /\ IF period' = 0
       THEN /\ pc' = "raised"
            /\ UNCHANGED <<challenge, apduVars, log>>
       ELSE /\ challenge' = PackBE(FloorDiv(t, period'), 8)
            /\ log' = Append(log, Sent("CALCULATE_ALL", period', o,
                               CalculateAllApdu(Tlv(CHALLENGE_TAG, challenge'))))
            /\ apdu' = SendFirst(o)
            /\ ret' = "calc_ret"
            /\ pc' = ApduPc(apdu', "calc_ret")
  /\ UNCHANGED <<objVars, hcard, errmsg, errcritical, oath_codes, disconnect_card,
                 release_ctx, aidx, key, i, envVars, answers, hcontext0, ntxn>>

\* IsSteam whatever the case of the letters.
IsSteamAnyCase(issuer) == Upper(issuer) = Upper(Steam)

\* name[0] == "Steam"
IsSteam(issuer) == issuer = Steam

\* The entry appended to oath_codes for the CODE value v of the account name,
\* decoded at time t while period per is queried.
CodeEntry(name, v, t, per) ==
  LET n == MaskedInt(v)
      code == DecimalCode(n, v[1])
      stcode == SteamCode(n)
      deprecation_tstamp == (FloorDiv(t, per) + 1) * per
  IN <<name[1], name[2], IF IsSteam(name[1]) THEN stcode ELSE code,
       deprecation_tstamp, IntSeconds(deprecation_tstamp * TicksPerSecond - t)>>

\* Whether the period of an account is appended to periods_to_request: it is
\* not the period being processed, has not been requested and is not waiting.
NewPeriod(account_period, per, requested, to_request) ==
  /\ account_period # per
  /\ ~InList(account_period, requested)
  /\ ~InList(account_period, to_request)

\* Skipped with no code left for another round.
SkippedNever(account_period, per) == FALSE

\* Whether the CODE record of an account is left for another round: the
\* period of the account is not the period being processed.
Skipped(account_period, per) == account_period # per

\* for i, (t, v) in enumerate(tlvs), from the entry k on. st holds the
\* variables the loop changes: errmsg, i, account_period, name, oath_codes and
\* periods_to_request; per, t and requested are period, now and
\* periods_requested.
RECURSIVE ForTlvs(_, _, _, _, _, _)
ForTlvs(tlvs, k, st, per, t, requested) ==
  IF k > Len(tlvs) THEN st
  ELSE
    LET tag == tlvs[k][1]
        v == tlvs[k][2]
        st1 == [st EXCEPT !.i = k - 1]
        d == DecodeName(v, default_period)
        newper == NewPeriod(d.account_period, per, requested, st.periods_to_request)
    IN IF tag # (IF (k - 1) % 2 = 0 THEN NAME_TAG ELSE TRUNCATED_TAG)
         THEN [st1 EXCEPT !.errmsg = <<"Malformed APDU response: unexpected tag">>]
       ELSE IF tag = NAME_TAG
         THEN IF ~IsAscii(v)
                THEN [st1 EXCEPT !.errmsg = <<"invalid name record in APDU">>]
              ELSE IF ~d.ok
                THEN [st1 EXCEPT !.errmsg = <<"malformed name record in APDU">>]
              ELSE ForTlvs(tlvs, k + 1,
                           [st1 EXCEPT !.account_period = d.account_period,
                                       !.name = d.name,
                                       !.periods_to_request =
                                          IF newper THEN Append(@, d.account_period) ELSE @],
                           per, t, requested)
       ELSE IF Skipped(st.account_period, per)
         THEN ForTlvs(tlvs, k + 1, st1, per, t, requested)
       ELSE IF v = <<>>
         THEN [st1 EXCEPT !.errmsg = <<"empty code record in APDU">>]
       ELSE IF ~(6 <= v[1] /\ v[1] <= 10)
         THEN [st1 EXCEPT !.errmsg = <<"malformed code record in APDU">>]
       ELSE ForTlvs(tlvs, k + 1,
                    [st1 EXCEPT !.oath_codes = Append(@, CodeEntry(st.name, v, t, per))],
                    per, t, requested)

\* The status of the answer a to CALCULATE_ALL: the error message and the
\* critical flag after the check of the status bytes, crit being the flag
\* before it.
CalcStatus(a, crit) ==
  IF Last2(a.response) = SwOk THEN [errmsg |-> None, errcritical |-> crit]
  ELSE IF Last2(a.response) = <<SW1_NOT_ALLOWED, SW2_AUTH_REQUIRED>>
    THEN [errmsg |-> <<"authentication required">>, errcritical |-> crit]
  ELSE [errmsg |-> <<"error from CALCULATE_ALL command">>, errcritical |-> PyFalse]

\* _send_apdu has returned the answer to CALCULATE_ALL: the rest of the body
\* of the while loop, and its condition.
CalcRet ==
  /\ pc = "calc_ret"
  /\ UNCHANGED <<qVars, guiVars, tlvVars>>
  /\ answers' = Append(answers, [cmd |-> "CALCULATE_ALL", arg |-> period, a |-> apdu, now |-> now])
  /\ LET txerr == apdu.errmsg # None \/ apdu.r # SCARD_S_SUCCESS
         status == CalcStatus(apdu, errcritical)
         d == Untlv(ButLast2(apdu.response), FALSE)
         st0 == [errmsg |-> None, i |-> -1, account_period |-> 0, name |-> <<>>,
                 oath_codes |-> oath_codes, periods_to_request |-> periods_to_request]
         st == ForTlvs(d.ld, 1, st0, period, now, periods_requested)
     IN IF txerr
          THEN /\ release_ctx' = TRUE
               /\ errmsg' = <<"error transmitting CALCULATE_ALL command">> \o apdu.errmsg
               /\ errcritical' = apdu.ec
               /\ pc' = "aftercalc"
               /\ UNCHANGED <<oath_codes, periods_to_request, i>>
        ELSE IF status.errmsg # None
          THEN /\ errmsg' = status.errmsg
               /\ errcritical' = status.errcritical
               /\ pc' = "aftercalc"
               /\ UNCHANGED <<release_ctx, oath_codes, periods_to_request, i>>
        ELSE IF d.errmsg # None
          THEN /\ errmsg' = d.errmsg
               /\ pc' = "aftercalc"
               /\ UNCHANGED <<release_ctx, errcritical, oath_codes, periods_to_request, i>>
        ELSE /\ errmsg' = st.errmsg
             /\ i' = st.i
             /\ oath_codes' = st.oath_codes
             /\ periods_to_request' = st.periods_to_request
             /\ pc' = IF st.errmsg = None
                         /\ PeriodsLeft(st.periods_to_request, periods_requested)
                        THEN "calc" ELSE "aftercalc"
             /\ UNCHANGED <<release_ctx, errcritical>>
  /\ UNCHANGED <<objVars, hcard, disconnect_card, aidx, key, challenge,
                 periods_requested, period, now, apduVars, envVars, log, hcontext0, ntxn>>

\* After the while loop: `if errmsg: continue`, the check of the number of
\* TLVs of the last response, the sort, and `break`.
AfterCalc ==
  /\ pc = "aftercalc"
  /\ UNCHANGED <<qVars, guiVars, tlvVars>>
  /\ IF errmsg # None
       THEN /\ pc' = ContinuePc(disconnect_card, release_ctx, hcontext)
            /\ UNCHANGED <<errmsg, oath_codes>>
     ELSE IF i % 2 = 0
       THEN /\ errmsg' = <<"Malformed APDU response: odd number of TLVs">>
            /\ pc' = ContinuePc(disconnect_card, release_ctx, hcontext)
            /\ UNCHANGED oath_codes
     ELSE /\ oath_codes' = Sorted(oath_codes)
          /\ pc' = "ret"
          /\ UNCHANGED errmsg
  /\ UNCHANGED <<objVars, hcard, errcritical, disconnect_card, release_ctx, aidx,
                 key, challenge, periods_to_request, periods_requested, period,
                 now, i, apduVars, envVars, histVars>>

\* The head of the while True loop with a flag set: disconnect the card and
\* release the context as asked, then break.
Unwind ==
  /\ pc = "unwind"
  /\ UNCHANGED <<qVars, guiVars, tlvVars>>
  /\ log' = log \o (IF disconnect_card THEN <<Call("Disconnect", hcard, "ok")>> ELSE <<>>)
                \o (IF release_ctx THEN <<Call("ReleaseContext", hcontext, "ok")>> ELSE <<>>)
  /\ openCards' = IF disconnect_card THEN {c \in openCards : c.h # hcard}
                  ELSE openCards
  /\ liveCtx' = IF release_ctx THEN liveCtx \ {hcontext} ELSE liveCtx
  /\ hcontext' = IF release_ctx THEN 0 ELSE hcontext
  /\ pc' = "ret"
  /\ UNCHANGED <<readers_regex, oath_pwd, all_readers, reader, locVars, apduVars,
                 answers, hcontext0, ntxn>>

\* return (errmsg, errcritical, oath_codes): the locals are gone and the
\* worker waits for its next command.
Return ==
  /\ pc = "ret"
  /\ UNCHANGED <<qVars, guiVars, tlvVars>>
  /\ pc' = "idle"
  /\ hcard' = 0
  /\ errmsg' = None
  /\ errcritical' = PyTrue
  /\ oath_codes' = <<>>
  /\ disconnect_card' = FALSE
  /\ release_ctx' = FALSE
  /\ aidx' = 0
  /\ key' = <<>>
  /\ challenge' = <<>>
  /\ periods_to_request' = <<>>
  /\ periods_requested' = <<>>
  /\ period' = 0
  /\ now' = 0
  /\ i' = -1
  /\ apdu' = NoApdu
  /\ ret' = "none"
  /\ log' = <<>>
  /\ answers' = <<>>
  /\ hcontext0' = 0
  /\ UNCHANGED <<objVars, envVars, ntxn>>

Next ==
  \/ \E arg \in ReaderArgs : SetRdr(arg)
  \/ \E arg \in PwdArgs : SetPwd(arg)
  \/ Get
  \/ \E o \in {"exc", "fail", "ok"} : EstablishContext(o)
  \/ \E o \in {"exc", "fail", "ok"}, rs \in ReaderLists : ListReaders(o, rs)
  \/ \E o \in {"exc", "fail", "ok"} : Connect(o)
  \/ \E o \in SelectReplies : SelectSend(o)
  \/ \E o \in RemainingReplies : SendRemaining(o)
  \/ SelectRet
  \/ Selected
  \/ ValidateRet
  \/ \E o \in CalcReplies, t \in Times : CalcSend(o, t)
  \/ CalcRet
  \/ AfterCalc
  \/ Unwind
  \/ Return

Spec == Init /\ [][Next]_vars

\* The worker process runs: inside the while loop of _send_apdu it is never
\* stopped for ever, it goes on to the next SCardTransmit. What the token
\* answers is not fair.
LiveSpec ==
  Init /\ [][Next]_vars /\ WF_vars(\E o \in RemainingReplies : SendRemaining(o))

(***************************************************************************)
(* _tlv and _untlv on their own                                            *)
(***************************************************************************)
\* a value of n bytes
Value(n) == [k \in 1..n |-> IF k % 2 = 1 THEN 255 ELSE k % 256]

\* the [tag, value] pairs to encode: values of 0, 1, 254, 255 and 256 bytes
TlvPairs ==
  { <<t, Value(n)>> : t \in {NAME_TAG, TRUNCATED_TAG}, n \in {0, 1, 254, 255, 256} }

\* the sequences of at most n elements of S
RECURSIVE SeqsUpTo(_, _)
SeqsUpTo(S, n) ==
  IF n = 0 THEN { <<>> }
  ELSE LET shorter == SeqsUpTo(S, n - 1)
       IN shorter \cup { Append(q, x) : q \in shorter, x \in S }

\* the buffers given to _untlv byte by byte
RawBuffers == SeqsUpTo({0, 1, 2, 255}, MaxRaw)

\* the concatenation of the _tlv encodings of the pairs, as data_tlv is built
RECURSIVE TlvAll(_)
TlvAll(pairs) ==
  IF pairs = <<>> THEN <<>>
  ELSE Tlv(Head(pairs)[1], Head(pairs)[2]) \o TlvAll(Tail(pairs))

TlvInit ==
  /\ PcscInit
  /\ NoGui
  /\ untlv_ret = NotRun
  /\ \/ /\ tlv_pc = "pairs"
        /\ tlvs_in \in SeqsUpTo(TlvPairs, MaxTlvs)
        /\ tlv_data = <<>>
     \/ /\ tlv_pc = "raw"
        /\ tlvs_in = <<>>
        /\ tlv_data \in RawBuffers

\* the pairs are encoded and concatenated
TlvEncode ==
  /\ tlv_pc = "pairs"
  /\ tlv_data' = TlvAll(tlvs_in)
  /\ tlv_pc' = "encoded"
  /\ UNCHANGED <<pcscVars, qVars, guiVars, tlvs_in, untlv_ret>>

\* the transfer is cut short: the last n bytes of the buffer are lost
TlvCut(n) ==
  /\ tlv_pc = "encoded"
  /\ n <= Len(tlv_data)
  /\ tlv_data' = Take(tlv_data, Len(tlv_data) - n)
  /\ tlv_pc' = "cut"
  /\ UNCHANGED <<pcscVars, qVars, guiVars, tlvs_in, untlv_ret>>

\* _untlv(data, do_dict) is called on the buffer
UntlvCall(do_dict) ==
  /\ tlv_pc \in {"encoded", "cut", "raw"}
  /\ LET u == Untlv(tlv_data, do_dict)
     IN untlv_ret' = [do_dict |-> do_dict, errmsg |-> u.errmsg, ld |-> u.ld]
  /\ tlv_pc' = CASE tlv_pc = "encoded" -> "encoded_done"
                 [] tlv_pc = "cut" -> "cut_done"
                 [] tlv_pc = "raw" -> "raw_done"
  /\ UNCHANGED <<pcscVars, qVars, guiVars, tlvs_in, tlv_data>>

TlvNext ==
  \/ TlvEncode
  \/ \E n \in 1..3 : TlvCut(n)
  \/ \E do_dict \in BOOLEAN : UntlvCall(do_dict)

TlvSpec == TlvInit /\ [][TlvNext]_vars

(***************************************************************************)
(* The authenticator window and the worker process it drives               *)
(*                                                                         *)
(* The callbacks of the window run one at a time in the GLib main loop;    *)
(* the worker process runs beside them, and inside get_codes it is only    *)
(* known to return one of the results get_codes can return.  timeout_func  *)
(* takes two steps, up to its read of codes_q and from there on, so that   *)
(* the worker may deliver a result in between.  The countdown of the       *)
(* seconds left shown with each code is left out of current_list_data.     *)
(***************************************************************************)
\* a command on cmd_q: SETRDR and SETPWD carry the text arg, GET the number n
Cmd(cmd, arg, n) == [cmd |-> cmd, arg |-> arg, n |-> n]

\* what get_codes() can return: errmsg, errcritical and the accounts
Outcomes ==
  { [errmsg |-> None, errcritical |-> PyTrue, iacs |-> << <<"A", "a", "123456">> >>],
    [errmsg |-> None, errcritical |-> PyTrue, iacs |-> <<>>],
    [errmsg |-> <<"no readers">>, errcritical |-> PyTrue, iacs |-> <<>>],
    [errmsg |-> <<"error connecting to the smartcard">>, errcritical |-> PyFalse,
     iacs |-> <<>>] }

\* the reader and the password the user types in the entries
CfgReaders == { <<>>, <<66>> }
CfgPwds == { <<>>, <<112>> }

\* cmd_q.get() in the newest-first order of a stack.
NextCmdNewest(q) == q[Len(q)]

\* cmd_q.get(): the oldest command of the queue
NextCmd(q) == Head(q)

\* authenticator.__init__: there is no configuration file, or it gives the
\* reader "B" and the password "p"; background reading is enabled or not
GuiInit ==
  /\ PcscInit
  /\ NoTlv
  /\ bg_read_enabled \in BOOLEAN
  /\ \E cfg \in { <<<<>>, <<>>>>, <<<<66>>, <<112>>>> } :
       /\ sent = <<Cmd("SETRDR", cfg[1], 0), Cmd("SETPWD", cfg[2], 0)>>
                   \o (IF bg_read_enabled THEN <<Cmd("GET", <<>>, 1)>> ELSE <<>>)
       /\ cmd_q = sent
  /\ codes_q = <<>>
  /\ getarg = 0
  /\ activated = FALSE
  /\ stop_timeout_func = FALSE
  /\ codes_msg_counter = IF bg_read_enabled THEN 1 ELSE 0
  /\ current_list_data = <<>>
  /\ statusbar_messages = <<PyNone, PyNone, PyNone>>
  /\ statusbar = <<>>
  /\ msg_at_lvl_changed = FALSE
  /\ last_errmsg_clear_tstamp = PyNone
  /\ timers = IF bg_read_enabled THEN 1 ELSE 0
  /\ gui_pc = "main"

\* pcsc_codes_reader: the command SETRDR is taken from the queue
WorkerSetRdr ==
  /\ pc = "idle"
  /\ cmd_q # <<>>
  /\ NextCmd(cmd_q).cmd = "SETRDR"
  /\ set_readers_regex(IF NextCmd(cmd_q).arg # <<>> THEN NextCmd(cmd_q).arg
                       ELSE default_reader)
  /\ cmd_q' = Tail(cmd_q)
  /\ UNCHANGED <<oath_pwd, hcontext, reader, pc, locVars, apduVars, envVars,
                 histVars, codes_q, getarg, sent, guiVars, tlvVars>>

\* pcsc_codes_reader: the command SETPWD is taken from the queue
WorkerSetPwd ==
  /\ pc = "idle"
  /\ cmd_q # <<>>
  /\ NextCmd(cmd_q).cmd = "SETPWD"
  /\ oath_pwd' = NextCmd(cmd_q).arg
  /\ cmd_q' = Tail(cmd_q)
  /\ UNCHANGED <<readers_regex, all_readers, hcontext, reader, pc, locVars,
                 apduVars, envVars, histVars, codes_q, getarg, sent, guiVars,
                 tlvVars>>

\* pcsc_codes_reader: the command GET is taken from the queue and get_codes
\* is entered
WorkerGet ==
  /\ pc = "idle"
  /\ cmd_q # <<>>
  /\ NextCmd(cmd_q).cmd = "GET"
  /\ getarg' = NextCmd(cmd_q).n
  /\ cmd_q' = Tail(cmd_q)
  /\ pc' = "get_codes"
  /\ UNCHANGED <<objVars, locVars, apduVars, envVars, histVars, codes_q, sent,
                 guiVars, tlvVars>>

\* pcsc_codes_reader: get_codes returns r, and codes_q.put((arg,) + r)
WorkerPut(r) ==
  /\ pc = "get_codes"
  /\ codes_q' = Append(codes_q, [n |-> getarg, errmsg |-> r.errmsg,
                                 errcritical |-> r.errcritical, iacs |-> r.iacs])
  /\ pc' = "idle"
  /\ UNCHANGED <<objVars, locVars, apduVars, envVars, histVars, cmd_q, getarg,
                 sent, guiVars, tlvVars>>

\* set_statusbar(lvl, msg): the messages of the three levels afterwards
set_statusbar(msgs, lvl, msg) == [msgs EXCEPT ![lvl + 1] = msg]

\* c is not None
NotNone(c) == c # PyNone

\* The message the status bar should display, taken as that of the lowest level that has one.
DisplayedLowest(msgs) ==
  LET l == SelectSeq(msgs, NotNone) \o <<PyNone>> IN l[1]

\* The message the status bar should display,
\* ([None] + [c for c in self.statusbar_messages if c is not None])[-1]
Displayed(msgs) ==
  LET l == <<PyNone>> \o SelectSeq(msgs, NotNone) IN l[Len(l)]

\* `if c`, for a message or None
Truthy(c) == c # PyNone /\ c # ""

\* set_statusbar(lvl, msg): the stack of the Gtk.Statusbar afterwards, from
\* the stack and the messages before.  pop(0) takes the last message off,
\* if there is one, and push(0, n) puts n on top.
statusbar_after(stack, msgs, lvl, msg) ==
  LET c == Displayed(msgs)
      n == Displayed(set_statusbar(msgs, lvl, msg))
      popped == IF Truthy(c) /\ (~Truthy(n) \/ n # c)
                  THEN SubSeq(stack, 1, Len(stack) - 1)
                  ELSE stack
  IN IF Truthy(n) /\ n # c THEN Append(popped, n) ELSE popped

\* The state of the window after set_statusbar(lvl, msg)
SetStatusbar(w, lvl, msg) ==
  [w EXCEPT !.statusbar_messages = set_statusbar(@, lvl, msg),
            !.statusbar = statusbar_after(@, w.statusbar_messages, lvl, msg),
            !.msg_at_lvl_changed = w.statusbar_messages[lvl + 1] # msg]

\* The state of the window after activate(), as the record of the fields it
\* may change: w is that record before the call.
activate(w) ==
  IF w.activated THEN w
  ELSE LET cleared == SetStatusbar(SetStatusbar(SetStatusbar(w, 0, PyNone),
                                                1, PyNone), 2, PyNone)
           shown == [cleared EXCEPT !.activated = TRUE,
                                    !.current_list_data = <<>>]
       IN IF ~w.bg_read_enabled
            THEN [shown EXCEPT !.stop_timeout_func = FALSE,
                               !.timers = @ + 1,
                               !.codes_msg_counter = @ + 1,
                               !.put = Append(@, Cmd("GET", <<>>, w.codes_msg_counter + 1))]
            ELSE shown

\* deactivate() that hides the window and leaves the timer alone.
deactivate_only_hides(w) == [w EXCEPT !.activated = FALSE]

\* deactivate()
deactivate(w) ==
  [w EXCEPT !.stop_timeout_func = IF ~w.bg_read_enabled THEN TRUE ELSE @,
            !.activated = FALSE]

\* the fields of the window, with the commands put on cmd_q during a callback
Window ==
  [activated |-> activated, bg_read_enabled |-> bg_read_enabled,
   stop_timeout_func |-> stop_timeout_func, codes_msg_counter |-> codes_msg_counter,
   current_list_data |-> current_list_data, statusbar_messages |-> statusbar_messages,
   statusbar |-> statusbar, msg_at_lvl_changed |-> msg_at_lvl_changed,
   last_errmsg_clear_tstamp |-> last_errmsg_clear_tstamp, timers |-> timers,
   put |-> <<>>]

\* a callback ends with the window as w
Becomes(w) ==
  /\ activated' = w.activated
  /\ bg_read_enabled' = w.bg_read_enabled
  /\ stop_timeout_func' = w.stop_timeout_func
  /\ codes_msg_counter' = w.codes_msg_counter
  /\ current_list_data' = w.current_list_data
  /\ statusbar_messages' = w.statusbar_messages
  /\ statusbar' = w.statusbar
  /\ msg_at_lvl_changed' = w.msg_at_lvl_changed
  /\ last_errmsg_clear_tstamp' = w.last_errmsg_clear_tstamp
  /\ timers' = w.timers
  /\ cmd_q' = cmd_q \o w.put
  /\ sent' = sent \o w.put

\* the user asks for the panel: activate()
Activate ==
  /\ gui_pc = "main"
  /\ ~activated
  /\ bg_read_enabled \/ codes_msg_counter < MaxGet
  /\ Becomes(activate(Window))
  /\ UNCHANGED <<pcscVars, codes_q, getarg, gui_pc, tlvVars>>

\* the user closes the panel, or selects a code with close on select:
\* deactivate()
Deactivate ==
  /\ gui_pc = "main"
  /\ activated
  /\ Becomes(deactivate(Window))
  /\ UNCHANGED <<pcscVars, codes_q, getarg, gui_pc, tlvVars>>

\* on_cfg_entry_update: the entries hold the reader rdr, the password pwd and
\* the choice bg of background reading; the configuration file is saved
\* (saved) or not.
OnCfgEntryUpdate(rdr, pwd, bg, saved) ==
  /\ gui_pc = "main"
  /\ activated
  /\ Cardinality({k \in 1..Len(sent) : sent[k].cmd = "SETRDR"}) <= MaxCfg
  /\ Becomes(SetStatusbar([Window EXCEPT
                             !.bg_read_enabled = bg,
                             !.put = <<Cmd("SETRDR", rdr, 0), Cmd("SETPWD", pwd, 0)>>],
                          1, IF saved THEN PyNone ELSE "Error saving configuration"))
  /\ UNCHANGED <<pcscVars, codes_q, getarg, gui_pc, tlvVars>>

\* timeout_func up to its read of codes_q: left is "gone" (the window has
\* been idle for too long), "soon" (the countdown is shown) or "later".
TimeoutFunc(left) ==
  /\ gui_pc = "main"
  /\ timers > 0
  /\ IF stop_timeout_func
       THEN /\ timers' = timers - 1
            /\ UNCHANGED <<activated, bg_read_enabled, stop_timeout_func,
                           codes_msg_counter, current_list_data, statusbar_messages,
                           statusbar, msg_at_lvl_changed,
                           last_errmsg_clear_tstamp, cmd_q, sent, gui_pc>>
       ELSE /\ gui_pc' = "read"
            /\ Becomes(IF ~activated THEN Window
                       ELSE IF left = "gone" THEN deactivate(Window)
                       ELSE SetStatusbar(Window, 2, IF left = "soon" THEN "Idle - closing"
                                                    ELSE PyNone))
  /\ UNCHANGED <<pcscVars, codes_q, getarg, tlvVars>>

\* The read of codes_q taking whatever result comes first.
CurrentResultAny(q, ctr) == IF q = <<>> THEN 0 ELSE 1

\* The while loop of timeout_func over codes_q.get(block = False): the place
\* in the queue q of the first result numbered ctr, 0 if the queue runs
\* empty before one is found.
CurrentResult(q, ctr) ==
  IF \E k \in 1..Len(q) : q[k].n = ctr
    THEN CHOOSE k \in 1..Len(q) : q[k].n = ctr /\ \A j \in 1..(k - 1) : q[j].n # ctr
    ELSE 0

\* The test `if errmsg` lost: every result is shown as a success.
IsErrorNever(res) == FALSE

\* if errmsg
IsError(res) == res.errmsg # None

\* timeout_func from its read of codes_q on: a result that is an error and
\* not critical finds the time to clear the last error message come
\* (cleartime) or not.
TimeoutRead(cleartime) ==
  /\ gui_pc = "read"
  /\ gui_pc' = "main"
  /\ LET k == CurrentResult(codes_q, codes_msg_counter)
     IN IF k = 0
          THEN /\ codes_q' = <<>>
               /\ Becomes(Window)
          ELSE LET res == codes_q[k]
                   asked == [Window EXCEPT
                               !.codes_msg_counter = @ + 1,
                               !.put = <<Cmd("GET", <<>>, codes_msg_counter + 1)>>]
                   failed ==
                     IF res.errcritical = PyTrue
                       THEN [SetStatusbar(asked, 0, "Error getting codes") EXCEPT
                               !.last_errmsg_clear_tstamp = "set"]
                     ELSE IF last_errmsg_clear_tstamp # PyNone /\ cleartime
                       THEN [SetStatusbar(asked, 0, PyNone) EXCEPT
                               !.last_errmsg_clear_tstamp = PyNone]
                     ELSE asked
                   shown == activate(asked)
                   read == [SetStatusbar(shown, 0, "Successfully read codes") EXCEPT
                              !.last_errmsg_clear_tstamp = PyNone,
                              !.current_list_data = res.iacs]
               IN /\ codes_msg_counter < MaxGet - (IF ~activated /\ ~bg_read_enabled THEN 1 ELSE 0)
                  /\ codes_q' = Drop(codes_q, k)
                  /\ Becomes(IF IsError(res) THEN failed ELSE read)
  /\ UNCHANGED <<pcscVars, getarg, tlvVars>>

GuiNext ==
  \/ WorkerSetRdr
  \/ WorkerSetPwd
  \/ WorkerGet
  \/ \E r \in Outcomes : WorkerPut(r)
  \/ Activate
  \/ Deactivate
  \/ \E rdr \in CfgReaders, pwd \in CfgPwds, bg \in BOOLEAN, saved \in BOOLEAN :
       OnCfgEntryUpdate(rdr, pwd, bg, saved)
  \/ \E left \in {"gone", "soon", "later"} : TimeoutFunc(left)
  \/ \E cleartime \in BOOLEAN : TimeoutRead(cleartime)

GuiSpec == GuiInit /\ [][GuiNext]_vars

(***************************************************************************)
(* set_statusbar on its own: any call after any other                      *)
(***************************************************************************)
\* the messages the callers of set_statusbar pass, without what they format
\* into them
BarMsgs ==
  {PyNone, "Copied code", "Error saving configuration", "Idle - closing",
   "Error getting codes", "Successfully read codes"}

\* authenticator.__init__ without a configuration file; nothing else runs
BarInit == PcscInit /\ NoGui /\ NoTlv

\* set_statusbar(lvl, msg)
SetStatusbarCall(lvl, msg) ==
  /\ Becomes(SetStatusbar(Window, lvl, msg))
  /\ UNCHANGED <<pcscVars, codes_q, getarg, gui_pc, tlvVars>>

BarNext == \E lvl \in 0..2, msg \in BarMsgs : SetStatusbarCall(lvl, msg)

BarSpec == BarInit /\ [][BarNext]_vars

(***************************************************************************)
(* Properties                                                              *)
(***************************************************************************)
\* get_codes has reached its return statement
Returned == pc = "ret"

InLog(op) == \E k \in 1..Len(log) : log[k].op = op

\* the messages of the authentication errors
AuthErrors ==
  { <<"password required">>,
    <<"password set but no password required">>,
    <<"authentication failed">>,
    <<"response from VALIDATE command does not match verification">> }

\* the messages of the malformed responses
MalformedErrors ==
  { <<"TLV too short in APDU response">>,
    <<"TLV value too short in APDU response">>,
    <<"Malformed APDU response: missing name tag in AID selection command response">>,
    <<"Malformed APDU response: missing response from VALIDATE command response">>,
    <<"Malformed APDU response: unexpected tag">>,
    <<"Malformed APDU response: odd number of TLVs">>,
    <<"invalid name record in APDU">>,
    <<"malformed name record in APDU">>,
    <<"empty code record in APDU">>,
    <<"malformed code record in APDU">> }

NoReaders == <<"no readers">>
NoMatchingReaders == <<"no matching readers">>
ConnectRefused == <<"error connecting to the smartcard">>

\* a response shorter than the two status bytes ended the transaction
TooShort == Len(errmsg) = 2 /\ errmsg[2] = "APDU response too short"

\* C1: every transaction that connected to a card has disconnected that card
\* when get_codes returns, on success and on failure.
C1_CardDisconnectedAtReturn ==
  (Returned /\ hcard # 0) => hcard \notin {c.h : c \in openCards}

\* C2: a card connection never outlives its context: every card connection
\* that is still open was made under a context that is still established.
C2_CardWithinContext == \A c \in openCards : c.ctx \in liveCtx

\* C3: the result is a success or a failure: a returned error message comes
\* with no accounts, and returned accounts come with no error message.
C3_SuccessOrFailure ==
  Returned => (errmsg = None \/ oath_codes = <<>>)

\* C4: get_codes never raises.
C4_NeverRaises == pc # "raised"

\* a context-level step of the transaction failed: SCardEstablishContext or
\* SCardListReaders raised or returned a failure code
ContextLevelFailure ==
  \E k \in 1..Len(log) :
    log[k].op \in {"EstablishContext", "ListReaders"} /\ log[k].out \in {"exc", "fail"}

\* C5: when a context-level step fails, the context is released and the
\* context of the session is none when get_codes returns.
C5_ContextLevelFailureResets ==
  (Returned /\ ContextLevelFailure) => (hcontext = 0 /\ liveCtx = {})

\* the context of the session is established, and is the one the transaction
\* started with, if any, neither released nor established anew
Retained ==
  /\ hcontext # 0
  /\ hcontext \in liveCtx
  /\ hcontext0 # 0 =>
       hcontext = hcontext0 /\ ~InLog("EstablishContext") /\ ~InLog("ReleaseContext")

RetainingOutcome ==
  errmsg = None \/ errmsg \in {NoReaders, NoMatchingReaders, ConnectRefused}

C6_RetainedInv ==
  /\ (Returned /\ RetainingOutcome) => Retained
  /\ (Returned /\ errmsg \in AuthErrors \cup MalformedErrors)
       => (hcontext = 0 /\ liveCtx = {})
  /\ hcontext0 # 0 => ~InLog("EstablishContext")

RECURSIVE SelectsOf(_)
SelectsOf(l) ==
  IF l = <<>> THEN <<>>
  ELSE (IF Take(Head(l).cmd, 4) = <<0, INS_SELECT, P1_SELECT, P2_SELECT>>
          THEN <<Drop(Head(l).cmd, 5)>> ELSE <<>>) \o SelectsOf(Tail(l))

\* what _send_apdu returned for the SELECT commands
SelectAnswers ==
  LET n == Cardinality({k \in 1..Len(answers) : answers[k].cmd = "SELECT"})
  IN SubSeq(answers, 1, n)

Clean(a) == a.errmsg = None /\ a.r = SCARD_S_SUCCESS
Accepted(a) == Clean(a) /\ Last2(a.response) = SwOk
NotFound(a) == Clean(a) /\ Last2(a.response) = <<SW1_WRONG_PARAMS, SW2_NOT_FOUND>>

SelectionErrors ==
  { "error transmitting OATH AID selection command",
    "error from OATH AID selection command",
    "OATH application not found" }

\* C7: SELECT is sent for the candidates in list order, for the next one only
\* after applet-not-found, never after an accepted one, and after the
\* accepted one the transaction goes on without error with its response.
C7_SelectInOrder ==
  LET sel == SelectsOf(log)
      ans == SelectAnswers
  IN /\ Len(sel) <= Len(oath_aids)
     /\ \A k \in 1..Len(sel) : sel[k] = oath_aids[k]
     /\ \A k \in 2..Len(sel) : k - 1 <= Len(ans) /\ NotFound(ans[k - 1].a)
     /\ \A k \in 1..Len(ans) :
          Accepted(ans[k].a) =>
            /\ Len(sel) = k
            /\ pc # "select"
            /\ errmsg = None \/ Head(errmsg) \notin SelectionErrors
     /\ pc = "selected" =>
          /\ ans # <<>>
          /\ Accepted(ans[Len(ans)].a)
          /\ apdu = ans[Len(ans)].a
          /\ errmsg = None

\* the first candidate is not found, the second is accepted
C7_Witness ==
  /\ pc = "selected"
  /\ SelectsOf(log) = oath_aids
  /\ Len(SelectAnswers) = 2
  /\ NotFound(SelectAnswers[1].a)
  /\ Accepted(SelectAnswers[2].a)
  /\ errmsg = None

\* C8: every authentication error is returned with critical = false.
C8_AuthErrorsNotCritical ==
  (Returned /\ errmsg \in AuthErrors) => errcritical = PyFalse

\* C9 as stated: no readers, no matching reader, no card and a response
\* shorter than two status bytes are returned with critical = false.
C9_TransientNotCritical ==
  (Returned /\ (errmsg \in {NoReaders, NoMatchingReaders, ConnectRefused} \/ TooShort))
    => errcritical = PyFalse

\* C9, amended: no card and a response shorter than two status bytes are
\* returned with critical = false; no readers and no matching reader are
\* returned with critical = true.
C9_CriticalOfTransient ==
  /\ (Returned /\ (errmsg = ConnectRefused \/ TooShort)) => errcritical = PyFalse
  /\ (Returned /\ errmsg \in {NoReaders, NoMatchingReaders}) => errcritical = PyTrue

\* the card is withdrawn while a command is answered
C9_Witness == Returned /\ TooShort /\ errcritical = PyFalse

\* C10: every malformed response is returned with critical = true.
C10_MalformedIsCritical ==
  (Returned /\ errmsg \in MalformedErrors) => errcritical = PyTrue

\* the messages of a CALCULATE_ALL response whose status is not OK
AuthenticationRequired == <<"authentication required">>
CalcUnknownStatus == <<"error from CALCULATE_ALL command">>

\* C11: a CALCULATE_ALL response with the authentication-required status is
\* returned as a non-critical error, one with any other status that is not OK
\* as a critical error.
C11_CalcStatusCritical ==
  /\ (Returned /\ errmsg = AuthenticationRequired) => errcritical = PyFalse
  /\ (Returned /\ errmsg = CalcUnknownStatus) => errcritical = PyTrue

\* what _send_apdu returned for the CALCULATE_ALL commands, in order
CalcAnswers == SelectSeq(answers, LAMBDA x : x.cmd = "CALCULATE_ALL")

\* the CALCULATE_ALL commands sent, in order
CalcCommands == SelectSeq(log, LAMBDA x : x.op = "CALCULATE_ALL")

\* the periods of the NAME records of the answer a, in their order
PeriodsIn(a) ==
  IF Clean(a) /\ Last2(a.response) = SwOk
                /\ Untlv(ButLast2(a.response), FALSE).errmsg = None
    THEN LET ld == Untlv(ButLast2(a.response), FALSE).ld
             names == SelectSeq(ld, LAMBDA e : /\ e[1] = NAME_TAG
                                               /\ IsAscii(e[2])
                                               /\ DecodeName(e[2], default_period).ok)
         IN [k \in 1..Len(names) |-> DecodeName(names[k][2], default_period).account_period]
  ELSE <<>>

\* s without the repetitions of its elements
RECURSIVE Distinct(_)
Distinct(s) ==
  IF s = <<>> THEN <<>>
  ELSE LET init == Distinct(Take(s, Len(s) - 1))
       IN IF \E k \in 1..Len(init) : init[k] = s[Len(s)]
            THEN init ELSE Append(init, s[Len(s)])

RECURSIVE Flatten(_)
Flatten(ss) == IF ss = <<>> THEN <<>> ELSE Head(ss) \o Flatten(Tail(ss))

\* the periods seen in the transaction in the order of their discovery: the
\* default period, then the periods of the names of the answers
PeriodsSeen ==
  Distinct(<<default_period>>
             \o Flatten([k \in 1..Len(CalcAnswers) |-> PeriodsIn(CalcAnswers[k].a)]))

\* C12: the periods are queried in the order of their discovery, the default
\* period first, none of them twice, so that there are at most as many
\* CALCULATE_ALL commands as distinct periods seen; when get_codes succeeds
\* every period seen has been queried.
C12_PeriodsQueriedOnce ==
  LET req == periods_requested
      seen == PeriodsSeen
      cmds == CalcCommands
  IN /\ Len(req) <= Len(seen)
     /\ \A k \in 1..Len(req) : req[k] = seen[k]
     /\ \A j, k \in 1..Len(req) : j # k => req[j] # req[k]
     /\ Len(cmds) <= Len(req)
     /\ \A k \in 1..Len(cmds) :
          /\ cmds[k].arg = req[k]
          /\ Take(cmds[k].cmd, 4) = <<0, INS_CALCULATE_ALL, 0, P2_CALCULATE_TRUNCATED>>
     /\ (Returned /\ errmsg = None) => (req = seen /\ Len(cmds) = Len(seen))

\* periods 30 and 60, the answer to the query for 60 naming an account of
\* period 30 again: get_codes succeeds after exactly two queries
C12_Witness ==
  /\ Returned
  /\ errmsg = None
  /\ periods_requested = <<30, 60>>
  /\ Len(CalcCommands) = 2
  /\ 30 \in {PeriodsIn(CalcAnswers[2].a)[k] : k \in 1..Len(PeriodsIn(CalcAnswers[2].a))}

\* C13: whatever the token answers, the continuation loop of _send_apdu stops
\* after finitely many GET RESPONSE REMAINING commands, so that _send_apdu
\* returns to get_codes.
C13_ContinuationLoopStops == (pc = "more") ~> (pc # "more")

\* the TLVs of the answer a to CALCULATE_ALL
TlvsOf(a) == Untlv(ButLast2(a.response), FALSE).ld

\* the answer a to CALCULATE_ALL is a list of well-formed NAME/CODE pairs
WellFormedPairs(a) ==
  /\ Clean(a) /\ Last2(a.response) = SwOk
  /\ Untlv(ButLast2(a.response), FALSE).errmsg = None
  /\ Len(TlvsOf(a)) % 2 = 0
  /\ \A k \in 1..Len(TlvsOf(a)) :
       LET e == TlvsOf(a)[k]
       IN IF k % 2 = 1
            THEN e[1] = NAME_TAG /\ IsAscii(e[2]) /\ DecodeName(e[2], default_period).ok
          ELSE e[1] = TRUNCATED_TAG /\ e[2] # <<>> /\ 6 <= e[2][1] /\ e[2][1] <= 10

\* the NAME/CODE pairs of a well-formed answer: the name and the period of
\* the account, and the CODE value
PairsOf(a) ==
  [k \in 1..(Len(TlvsOf(a)) \div 2) |->
     LET d == DecodeName(TlvsOf(a)[2 * k - 1][2], default_period)
     IN [name |-> d.name, period |-> d.account_period, v |-> TlvsOf(a)[2 * k][2]]]

\* the applet answered every round of the transaction with the same list of
\* well-formed pairs
SameListEveryRound ==
  /\ CalcAnswers # <<>>
  /\ WellFormedPairs(CalcAnswers[1].a)
  /\ \A k \in 1..Len(CalcAnswers) : CalcAnswers[k].a.response = CalcAnswers[1].a.response

\* the entry e of the result is the account of the pair p, decoded in a round
\* that queried the period of p
EntryOf(e, p) ==
  /\ e[1] = p.name[1] /\ e[2] = p.name[2]
  /\ e[3] = (IF p.name[1] = Steam THEN SteamCode(MaskedInt(p.v))
             ELSE DecimalCode(MaskedInt(p.v), p.v[1]))
  /\ \E r \in 1..Len(CalcAnswers) :
       /\ CalcAnswers[r].arg = p.period
       /\ e[4] = (((CalcAnswers[r].now \div TicksPerSecond) \div p.period) + 1) * p.period

\* C14: when every round is answered with the same list of well-formed pairs
\* and get_codes succeeds, the result has one entry for each pair of the
\* list and no other, decoded with the period of its account.
C14_EachAccountOnce ==
  (Returned /\ errmsg = None /\ SameListEveryRound) =>
    LET pairs == PairsOf(CalcAnswers[1].a)
    IN /\ Len(oath_codes) = Len(pairs)
       /\ \A k \in 1..Len(pairs) :
            Cardinality({j \in 1..Len(oath_codes) : EntryOf(oath_codes[j], pairs[k])})
              = Cardinality({j \in 1..Len(pairs) : pairs[j] = pairs[k]})

\* two rounds answered with the same list, an account of period 60 and an
\* account of the default period
C14_Witness ==
  /\ Returned /\ errmsg = None /\ SameListEveryRound
  /\ Len(CalcAnswers) = 2
  /\ Len(oath_codes) = 2
  /\ {PairsOf(CalcAnswers[1].a)[k].period : k \in 1..2} = {30, 60}

\* A NAME value read as `[issuer:][period/]account`: the issuer is the text
\* before the colon, and the text after it (the whole value when there is no
\* colon) starts with the period and a slash when `explicit`.
PeriodSlashAccount(v) ==
  LET colons == {k \in 1..Len(v) : v[k] = 58}
      c == IF colons = {} THEN 0 ELSE CHOOSE k \in colons : \A j \in colons : j <= k
      rest == Drop(v, c)
      k == PeriodPrefix(rest)
  IN [explicit |-> k > 0,
      issuer |-> IF c = 0 THEN <<>> ELSE Take(v, c - 1),
      period |-> DigitsToInt(Take(rest, k)),
      account |-> Drop(rest, k + 1)]

\* C15: an account whose NAME is `period/account` or `issuer:period/account`
\* has that period, which is queried, and is reported under the issuer before
\* the colon and the account name after the `period/` prefix.
C15_ExplicitPeriodRecognised ==
  (Returned /\ errmsg = None) =>
    \A r \in 1..Len(CalcAnswers) :
      WellFormedPairs(CalcAnswers[r].a) =>
        \A k \in 1..Len(TlvsOf(CalcAnswers[r].a)) :
          LET e == TlvsOf(CalcAnswers[r].a)[k]
              n == PeriodSlashAccount(e[2])
          IN (e[1] = NAME_TAG /\ n.explicit) =>
               /\ InList(n.period, periods_requested)
               /\ \E j \in 1..Len(oath_codes) :
                    /\ oath_codes[j][1] = n.issuer
                    /\ oath_codes[j][2] = n.account
                    /\ oath_codes[j][4] % n.period = 0

\* the TLV list ld is a strict alternation NAME, CODE, NAME, CODE, ...
Alternates(ld) ==
  /\ Len(ld) % 2 = 0
  /\ \A k \in 1..Len(ld) : ld[k][1] = (IF k % 2 = 1 THEN NAME_TAG ELSE TRUNCATED_TAG)

\* some round of the transaction was answered with a TLV list that is not a
\* strict alternation
SomeRoundNotAlternating ==
  \E r \in 1..Len(CalcAnswers) :
    LET a == CalcAnswers[r].a
    IN /\ Clean(a) /\ Last2(a.response) = SwOk
       /\ Untlv(ButLast2(a.response), FALSE).errmsg = None
       /\ ~Alternates(TlvsOf(a))

\* C16: if the TLV list of the answer of any round is not a strict
\* alternation, get_codes fails with a malformed-response error.
C16_AlternationEveryRound ==
  (Returned /\ SomeRoundNotAlternating) => errmsg \in MalformedErrors

\* the text of d decimal digits of the number n, the digits beyond the d-th
\* from the right dropped and zeros put for the missing ones
DigitsOf(n, d) == [k \in 1..d |-> 48 + ((n \div Pow(10, d - k)) % 10)]

\* the entry e of the result was decoded in the round r from the pair at the
\* places k - 1 and k of its answer
DecodedFrom(e, r, k) ==
  LET a == CalcAnswers[r].a
      ld == TlvsOf(a)
      d == DecodeName(ld[k - 1][2], default_period)
  IN /\ Clean(a) /\ Last2(a.response) = SwOk
     /\ ld[k - 1][1] = NAME_TAG /\ ld[k][1] = TRUNCATED_TAG
     /\ d.ok /\ d.account_period = CalcAnswers[r].arg
     /\ e[1] = d.name[1] /\ e[2] = d.name[2]

\* the records the entries of the result can come from
Records ==
  {rk \in (1..Len(CalcAnswers)) \X (2..6) :
     /\ rk[2] % 2 = 0
     /\ Untlv(ButLast2(CalcAnswers[rk[1]].a.response), FALSE).errmsg = None
     /\ rk[2] <= Len(TlvsOf(CalcAnswers[rk[1]].a))}

\* the CODE value of the record rk
CodeOf(rk) == TlvsOf(CalcAnswers[rk[1]].a)[rk[2]][2]

\* a CODE value that is empty or whose digit count is not in 6..10
BadCode(v) == v = <<>> \/ ~(6 <= v[1] /\ v[1] <= 10)

\* C17 as stated: the decimal code of a CODE value of d digits in 6..10 is
\* the masked payload modulo 10^d in exactly d characters, and a CODE value
\* that is empty or of another digit count makes the transaction fail.
C17_CodeOrFailure ==
  /\ \A j \in 1..Len(oath_codes) :
       \E rk \in Records :
         /\ DecodedFrom(oath_codes[j], rk[1], rk[2])
         /\ ~BadCode(CodeOf(rk))
         /\ oath_codes[j][1] # Steam =>
              oath_codes[j][3] = DigitsOf(MaskedInt(CodeOf(rk)), CodeOf(rk)[1])
  /\ (Returned /\ \E rk \in Records :
                    /\ Clean(CalcAnswers[rk[1]].a)
                    /\ Last2(CalcAnswers[rk[1]].a.response) = SwOk
                    /\ TlvsOf(CalcAnswers[rk[1]].a)[rk[2]][1] = TRUNCATED_TAG
                    /\ BadCode(CodeOf(rk)))
       => errmsg # None

\* the CODE record rk is examined: the name before it is that of an account
\* of the period queried in the round
Examined(rk) ==
  LET a == CalcAnswers[rk[1]].a
      ld == TlvsOf(a)
      d == DecodeName(ld[rk[2] - 1][2], default_period)
  IN /\ Clean(a) /\ Last2(a.response) = SwOk
     /\ ld[rk[2] - 1][1] = NAME_TAG /\ ld[rk[2]][1] = TRUNCATED_TAG
     /\ IsAscii(ld[rk[2] - 1][2])
     /\ d.ok /\ d.account_period = CalcAnswers[rk[1]].arg

\* C17, amended: the decimal code is as stated; a CODE value that is empty or
\* of another digit count makes the transaction fail when it is that of an
\* account of the period queried in the round (the CODE values of the other
\* accounts are skipped unexamined).
C17_CodeOrFailureExamined ==
  /\ \A j \in 1..Len(oath_codes) :
       \E rk \in Records :
         /\ DecodedFrom(oath_codes[j], rk[1], rk[2])
         /\ ~BadCode(CodeOf(rk))
         /\ oath_codes[j][1] # Steam =>
              /\ Len(oath_codes[j][3]) = CodeOf(rk)[1]
              /\ oath_codes[j][3] = DigitsOf(MaskedInt(CodeOf(rk)), CodeOf(rk)[1])
  /\ (Returned /\ \E rk \in Records : Examined(rk) /\ BadCode(CodeOf(rk)))
       => errmsg \in MalformedErrors

\* the code "47483647" of 8 digits of the payload FF FF FF FF, whose top bit
\* is masked and whose masked value has 10 digits
C17_Witness ==
  /\ Returned /\ errmsg = None
  /\ \E j \in 1..Len(oath_codes) : oath_codes[j][3] = <<52, 55, 52, 56, 51, 54, 52, 55>>

\* the alphabet 23456789BCDFGHJKMNPQRTVWXY of the alternate code
AlternateAlphabet ==
  <<50, 51, 52, 53, 54, 55, 56, 57, 66, 67, 68, 70, 71, 72, 74, 75, 77, 78, 80, 81,
    82, 84, 86, 87, 88, 89>>

\* the alternate code of the masked integer n: five successive remainders
\* modulo 26, the least significant first, each indexing the alphabet
AlternateCode(n) == [k \in 1..5 |-> AlternateAlphabet[((n \div Pow(26, k - 1)) % 26) + 1]]

\* C18: the code of an account is the alternate code of 5 characters of the
\* masked integer if its issuer is exactly "Steam" and the decimal code
\* otherwise; the alternate code has only characters of the alphabet.
C18_AlternateCodeIffSteam ==
  \A j \in 1..Len(oath_codes) :
    \E rk \in Records :
      LET e == oath_codes[j]
          n == MaskedInt(CodeOf(rk))
      IN /\ DecodedFrom(e, rk[1], rk[2])
         /\ ~BadCode(CodeOf(rk))
         /\ e[1] = Steam =>
              /\ e[3] = AlternateCode(n)
              /\ Len(e[3]) = 5
              /\ \A k \in 1..5 : \E c \in 1..26 : e[3][k] = AlternateAlphabet[c]
         /\ e[1] # Steam => e[3] = DigitsOf(n, CodeOf(rk)[1])

\* an account of the issuer "Steam" with its alternate code and an account
\* of the issuer "steam" with its decimal code
C18_Witness ==
  /\ Returned /\ errmsg = None
  /\ \E j \in 1..Len(oath_codes) : oath_codes[j][1] = Steam /\ Len(oath_codes[j][3]) = 5
  /\ \E j \in 1..Len(oath_codes) :
       /\ Upper(oath_codes[j][1]) = Upper(Steam) /\ oath_codes[j][1] # Steam
       /\ Len(oath_codes[j][3]) = 10

\* C19 as stated: for every account of the result, with now the time of the
\* round that decoded it and period its period, the deprecation instant is
\* (floor(now / period) + 1) * period, a multiple of the period, later than
\* now and at most now + period, and the seconds remaining are the
\* deprecation instant minus now.
C19_DeprecationMinusNow ==
  \A j \in 1..Len(oath_codes) :
    \E rk \in Records :
      LET e == oath_codes[j]
          t == CalcAnswers[rk[1]].now
          per == CalcAnswers[rk[1]].arg
      IN /\ DecodedFrom(e, rk[1], rk[2])
         /\ e[4] = ((t \div (TicksPerSecond * per)) + 1) * per
         /\ e[4] % per = 0
         /\ e[4] * TicksPerSecond > t
         /\ e[4] * TicksPerSecond <= t + per * TicksPerSecond
         /\ e[5] * TicksPerSecond = e[4] * TicksPerSecond - t
         /\ 0 <= e[5] /\ e[5] <= per

\* C19, amended: the deprecation instant is as stated, and the seconds
\* remaining are the whole seconds of the deprecation instant minus now, the
\* fraction of a second dropped.
C19_DeprecationWholeSeconds ==
  \A j \in 1..Len(oath_codes) :
    \E rk \in Records :
      LET e == oath_codes[j]
          t == CalcAnswers[rk[1]].now
          per == CalcAnswers[rk[1]].arg
      IN /\ DecodedFrom(e, rk[1], rk[2])
         /\ e[4] = ((t \div (TicksPerSecond * per)) + 1) * per
         /\ e[4] % per = 0
         /\ e[4] * TicksPerSecond > t
         /\ e[4] * TicksPerSecond <= t + per * TicksPerSecond
         /\ e[5] * TicksPerSecond <= e[4] * TicksPerSecond - t
         /\ e[4] * TicksPerSecond - t < (e[5] + 1) * TicksPerSecond
         /\ 0 <= e[5] /\ e[5] <= per

\* accounts of the periods 30 and 60, one decoded at a time with a fraction
\* of a second and one at the start of a period
C19_Witness ==
  /\ Returned /\ errmsg = None
  /\ Len(CalcAnswers) = 2
  /\ CalcAnswers[1].now % TicksPerSecond # 0
  /\ CalcAnswers[2].now = 60 * TicksPerSecond
  /\ \E j \in 1..Len(oath_codes) : oath_codes[j][4] = 60 /\ oath_codes[j][5] = 0
  /\ \E j \in 1..Len(oath_codes) : oath_codes[j][4] = 120 /\ oath_codes[j][5] = 60

\* the concatenation issuer + name of the entry e, the case of the letters
\* put aside
CaseKey(e) == [k \in 1..Len(e[1] \o e[2]) |-> UpperChar((e[1] \o e[2])[k])]

\* the list codes is in non-decreasing order of CaseKey
IsSorted(codes) ==
  \A j, k \in 1..Len(codes) : j < k => ~StrLess(CaseKey(codes[k]), CaseKey(codes[j]))

\* C20: the account list get_codes returns is sorted in non-decreasing order
\* of the case-insensitive concatenation issuer + name.
C20_ResultSorted == Returned => IsSorted(oath_codes)

(***************************************************************************)
(* _tlv and _untlv                                                         *)
(***************************************************************************)
\* C21: the [tag, value] pairs encoded by _tlv and concatenated are decoded
\* by _untlv, as a list, to the same pairs in the same order, with no error.
C21_TlvRoundTrip ==
  (tlv_pc = "encoded_done" /\ ~untlv_ret.do_dict)
    => (untlv_ret.errmsg = None /\ untlv_ret.ld = tlvs_in)

\* C21: two pairs with the same tag, an empty value and a value of 255 bytes,
\* have been encoded and decoded as a list.
C21_Witness ==
  /\ tlv_pc = "encoded_done"
  /\ ~untlv_ret.do_dict
  /\ tlvs_in = << <<NAME_TAG, <<>> >>, <<NAME_TAG, Value(255)>> >>
  /\ Len(tlv_data) = 261

\* the buffer b is whole TLVs end to end: it can be cut into pieces each of
\* which is a tag, a length of one byte below 255 or of 255 and two bytes, and
\* as many bytes of value as the length says
WholeTlvs(b) ==
  \E cuts \in SUBSET (1..(Len(b) + 1)) :
    /\ 1 \in cuts
    /\ Len(b) + 1 \in cuts
    /\ \A p \in cuts \ {Len(b) + 1} :
         LET q == CHOOSE q \in cuts : q > p /\ \A r \in cuts : r > p => q <= r
         IN /\ q - p >= 2
            /\ IF b[p + 1] # 255 THEN q - p = 2 + b[p + 1]
               ELSE q - p >= 4 /\ q - p = 4 + b[p + 2] * 256 + b[p + 3]

\* C22: _untlv fails exactly when the buffer ends inside a header or inside
\* a value (a buffer of whole TLVs that lost its last bytes fails unless it
\* ends where one of them ends), and then it returns no list and no
\* dictionary.
C22_UntlvFailsWhenCutShort ==
  /\ tlv_pc = "raw_done" => (untlv_ret.errmsg # None <=> ~WholeTlvs(tlv_data))
  /\ tlv_pc = "cut_done" =>
       (untlv_ret.errmsg # None <=>
          \A k \in 0..Len(tlvs_in) : tlv_data # TlvAll(SubSeq(tlvs_in, 1, k)))
  /\ tlv_pc = "encoded_done" => untlv_ret.errmsg = None
  /\ untlv_ret.errmsg # None => untlv_ret.ld = None

\* C22: _untlv has failed on a buffer that holds a whole TLV and then ends
\* inside the value of the next one.
C22_Witness ==
  /\ tlv_pc = "raw_done"
  /\ tlv_data = <<1, 1, 2, 1, 2>>
  /\ untlv_ret.errmsg = <<"TLV value too short in APDU response">>
  /\ untlv_ret.ld = None

(***************************************************************************)
(* _send_apdu: the continuation of a response                              *)
(***************************************************************************)
\* the history of the _send_apdu call that has just returned: its command
\* and the GET RESPONSE REMAINING commands after it
CallEntries ==
  LET k == CHOOSE k \in 1..Len(log) :
             /\ log[k].op # "SEND_REMAINING"
             /\ \A j \in (k + 1)..Len(log) : log[j].op = "SEND_REMAINING"
  IN SubSeq(log, k, Len(log))

\* the data bytes of the chunks es, in the order they arrived
RECURSIVE DataOf(_)
DataOf(es) ==
  IF es = <<>> THEN <<>> ELSE ButLast2(Head(es).resp) \o DataOf(Tail(es))

\* _send_apdu has returned a response to its caller
ApduReturned ==
  pc \in {"select_ret", "validate_ret", "calc_ret"} /\ apdu.errmsg = None

\* C23: the response _send_apdu returns is the data bytes of all the chunks
\* in arrival order followed by the status of the last chunk; every chunk
\* but the last asked for more, and each was fetched with the fixed GET
\* RESPONSE REMAINING command.
C23_ChunksConcatenated ==
  ApduReturned =>
    LET es == CallEntries
    IN /\ apdu.response = DataOf(es) \o Last2(es[Len(es)].resp)
       /\ \A j \in 1..Len(es) :
            /\ j > 1 => es[j].cmd = <<0, INS_SEND_REMAINING, 0, 0>>
            /\ j < Len(es) <=> es[j].resp[Len(es[j].resp) - 1] = SW1_MORE_DATA

\* C23: a SELECT answered in three chunks, each with data, has returned them
\* as one response.
C23_Witness ==
  /\ ApduReturned
  /\ pc = "select_ret"
  /\ Len(CallEntries) = 3
  /\ apdu.response =
       Tlv(NAME_TAG, CardSalt) \o Tlv(CHALLENGE_TAG, CardChallenge) \o SwOk

(***************************************************************************)
(* The choice of the reader                                                *)
(***************************************************************************)
\* the reader list SCardListReaders returned last in this transaction
LiveReaders ==
  LET k == CHOOSE k \in 1..Len(log) :
             /\ log[k].op = "ListReaders"
             /\ \A j \in (k + 1)..Len(log) : log[j].op # "ListReaders"
  IN log[k].resp

\* r is the first reader of the list rs that the pattern regex matches
FirstMatching(r, rs, regex) ==
  \E k \in 1..Len(rs) :
    /\ r = rs[k]
    /\ ReMatch(regex, rs[k]) = "match"
    /\ \A j \in 1..(k - 1) : ReMatch(regex, rs[j]) = "nomatch"

\* C24: get_codes connects only to the first reader of the live list that
\* the configured pattern matches; with an empty list, no matching reader or
\* a pattern that does not compile it does not connect and fails.
C24_FirstMatchingReader ==
  /\ (pc = "connect" \/ InLog("Connect"))
       => FirstMatching(reader, LiveReaders, readers_regex)
  /\ (Returned /\ InLog("ListReaders")
        /\ \A k \in 1..Len(LiveReaders) :
             ReMatch(readers_regex, LiveReaders[k]) # "match")
       => (errmsg # None /\ ~InLog("Connect"))

\* C24: in its second transaction get_codes is about to connect to "b1",
\* the first of the readers "b1", "A0", for the pattern made from "B".
C24_Witness ==
  /\ pc = "connect"
  /\ ntxn = 2
  /\ readers_regex = ReadersRegex(<<66>>)
  /\ LiveReaders = << <<98, 49>>, <<65, 48>> >>
  /\ reader = <<98, 49>>

\* the pattern in force was made by SETRDR with an empty argument (no other
\* argument of the model gives the pattern of default_reader)
EmptyPatternSet == readers_regex = ReadersRegex(default_reader)

\* C25: after SETRDR with an empty argument, a transaction resolves to the
\* first reader of any reader list that is not empty.
C25_EmptyPatternMatchesAll ==
  (EmptyPatternSet /\ InLog("ListReaders") /\ LiveReaders # <<>>)
    => reader = LiveReaders[1]

(***************************************************************************)
(* Authentication before CALCULATE_ALL                                     *)
(***************************************************************************)
\* the TLVs of the response to the last SELECT, and to VALIDATE
SelectTlvs == Untlv(ButLast2(SelectAnswers[Len(SelectAnswers)].a.response), TRUE).ld

ValidateAnswer ==
  LET k == CHOOSE k \in 1..Len(answers) : answers[k].cmd = "VALIDATE"
  IN answers[k].a

\* the challenge of the client, as the VALIDATE command carried it
SentChallenge ==
  LET k == CHOOSE k \in 1..Len(log) : log[k].op = "VALIDATE"
  IN Untlv(Drop(log[k].cmd, 5), TRUE).ld[CHALLENGE_TAG]

\* C30: CALCULATE_ALL is sent only without a password to an applet that sent
\* no challenge, or with a password to an applet that sent a challenge,
\* accepted VALIDATE and answered the client's challenge with its HMAC under
\* the key derived from the password and the applet's salt.
C30_CalculateOnlyWhenAuthenticated ==
  InLog("CALCULATE_ALL") =>
    \/ /\ oath_pwd = <<>>
       /\ CHALLENGE_TAG \notin DOMAIN SelectTlvs
    \/ /\ oath_pwd # <<>>
       /\ CHALLENGE_TAG \in DOMAIN SelectTlvs
       /\ \E k \in 1..Len(answers) : answers[k].cmd = "VALIDATE"
       /\ Accepted(ValidateAnswer)
       /\ LET tlvs == Untlv(ButLast2(ValidateAnswer.response), TRUE).ld
          IN /\ RESPONSE_TAG \in DOMAIN tlvs
             /\ tlvs[RESPONSE_TAG] =
                  Hmac(Pbkdf2(oath_pwd, SelectTlvs[NAME_TAG]), SentChallenge)

\* C30: CALCULATE_ALL has been sent after a VALIDATE that the applet
\* accepted and answered.
C30_Witness ==
  /\ InLog("CALCULATE_ALL")
  /\ oath_pwd = <<112>>
  /\ InLog("VALIDATE")
  /\ Accepted(ValidateAnswer)


(***************************************************************************)
(* The command queue of the worker                                         *)
(***************************************************************************)
\* the place in `sent` of the GET numbered n
GetAt(n) == CHOOSE k \in 1..Len(sent) : sent[k].cmd = "GET" /\ sent[k].n = n

\* the argument of the last command cmd put on the queue before the place k
\* (__init__ puts a SETRDR and a SETPWD before any GET)
LastBefore(k, cmd) ==
  LET j == CHOOSE j \in 1..(k - 1) :
             /\ sent[j].cmd = cmd
             /\ \A m \in (j + 1)..(k - 1) : sent[m].cmd # cmd
  IN sent[j].arg

\* C26: while the worker is inside get_codes for GET(n), the pattern and the
\* password are those of the last SETRDR and SETPWD put on the queue before
\* GET(n), whatever has been put on it since; the commands waiting are the
\* newest ones in the order they were put, and the results come in the order
\* of their GETs.
C26_SettingsOfTransaction ==
  /\ pc = "get_codes" =>
       LET rdr == LastBefore(GetAt(getarg), "SETRDR")
       IN /\ readers_regex = ReadersRegex(IF rdr # <<>> THEN rdr ELSE default_reader)
          /\ oath_pwd = LastBefore(GetAt(getarg), "SETPWD")
  /\ cmd_q = SubSeq(sent, Len(sent) - Len(cmd_q) + 1, Len(sent))
  /\ \A j, k \in 1..Len(codes_q) : j < k => codes_q[j].n < codes_q[k].n

\* C26: the worker is inside get_codes for GET(2) while a SETRDR put on the
\* queue after GET(2) asks for another pattern.
C26_Witness ==
  /\ pc = "get_codes"
  /\ getarg = 2
  /\ \E j \in (GetAt(2) + 1)..Len(sent) :
       /\ sent[j].cmd = "SETRDR"
       /\ sent[j].arg = <<66>>
  /\ readers_regex # ReadersRegex(<<66>>)

(***************************************************************************)
(* The authenticator: results, polling and the panel                       *)
(***************************************************************************)
\* this step puts a GET on cmd_q
GetIssued ==
  \E k \in (Len(sent) + 1)..Len(sent') : sent'[k].cmd = "GET"

\* codes_q holds the result of the GET issued last
HasCurrent == \E k \in 1..Len(codes_q) : codes_q[k].n = codes_msg_counter

\* that result
Current == codes_q[CHOOSE k \in 1..Len(codes_q) : codes_q[k].n = codes_msg_counter]

\* this step is timeout_func's read of codes_q and what follows it
Reads == gui_pc = "read" /\ gui_pc' = "main"

\* timeout_func, at its read of codes_q, finds only older results or none:
\* it takes them off the queue and changes neither the list nor the status.
StaleDiscarded ==
  (Reads /\ ~HasCurrent)
    => (codes_q' = <<>> /\ UNCHANGED <<current_list_data, statusbar_messages,
                                       activated, codes_msg_counter, sent>>)

\* timeout_func, finding the result of the GET issued last, shows its codes
\* if it is a success and keeps the list if it is an error.
CurrentShown ==
  (Reads /\ HasCurrent)
    => IF Current.errmsg = None
         THEN /\ current_list_data' = Current.iacs
              /\ statusbar_messages'[1] = "Successfully read codes"
         ELSE UNCHANGED current_list_data

\* C27: only the result numbered as the GET issued last is acted on, older
\* ones are discarded without a change of the list or the status, and a GET
\* is issued only once the result of the one before has been received.
C27_OnlyCurrentResult ==
  [][/\ StaleDiscarded
     /\ CurrentShown
     /\ (GetIssued /\ codes_msg_counter > 0) => (Reads /\ HasCurrent)]_vars

\* C27, amended: as C27, but a GET is issued either by timeout_func once it
\* has received the result of the one before, or by activate() with
\* background reading disabled, at once.
C27_OnlyCurrentResultOrActivate ==
  [][/\ StaleDiscarded
     /\ CurrentShown
     /\ GetIssued => \/ Reads /\ HasCurrent
                     \/ ~activated /\ activated' /\ ~bg_read_enabled]_vars

\* C27: both GETs were issued by activate(), the result of the first has
\* been delivered and has been taken off the queue, and the list is empty.
C27_Witness ==
  /\ timers = 2
  /\ codes_msg_counter = 2
  /\ getarg = 1
  /\ pc = "idle"
  /\ codes_q = <<>>
  /\ gui_pc = "main"
  /\ current_list_data = <<>>
  /\ statusbar_messages[1] = PyNone

C29_AppearsOnSuccessOnly ==
  /\ []((bg_read_enabled /\ ~activated) => (timers > 0 /\ ~stop_timeout_func))
  /\ [][/\ (bg_read_enabled /\ ~activated /\ Reads /\ HasCurrent
              /\ Current.errmsg = None) => activated'
        /\ (~activated /\ Reads /\ (~HasCurrent \/ Current.errmsg # None))
             => ~activated']_vars

\* C29: with background reading enabled and the panel hidden, timeout_func
\* is at its read of codes_q, which holds a successful result of the GET
\* issued last.
C29_Witness ==
  /\ bg_read_enabled
  /\ ~activated
  /\ gui_pc = "read"
  /\ HasCurrent
  /\ Current.errmsg = None
  /\ Current.iacs # <<>>

\* C31: at most one timeout_func timer is scheduled at any time, whatever
\* the order of activate, deactivate, changes of the configuration and
\* timer ticks.
C31_AtMostOneTimer == timers <= 1

\* the levels that hold a message
Levels == {l \in 1..Len(statusbar_messages) : statusbar_messages[l] # PyNone}

\* the highest of them
Highest == CHOOSE l \in Levels : \A m \in Levels : m <= l

\* C32: after any calls of set_statusbar the status bar shows the message of
\* the highest level that has one and nothing if no level has one, its
\* stack never holds more than one message, and a call returns true exactly
\* when it changed the message of its level.
C32_ShowsHighestLevel ==
  /\ [](/\ Len(statusbar) <= 1
        /\ statusbar = IF Levels = {} THEN <<>>
                       ELSE <<statusbar_messages[Highest]>>)
  /\ [][msg_at_lvl_changed' = (statusbar_messages' # statusbar_messages)]_vars

\* C32: two levels hold a message, the status bar shows that of the higher,
\* and the last call, repeating the message of its level, returned false.
C32_Witness ==
  /\ statusbar_messages[1] # PyNone
  /\ statusbar_messages[2] # PyNone
  /\ statusbar_messages[2] # statusbar_messages[1]
  /\ statusbar_messages[3] = PyNone
  /\ statusbar = <<statusbar_messages[2]>>
  /\ ~msg_at_lvl_changed

====
